---- MODULE Spec2Model ----
(***************************************************************************)
(* Model of src/app.py: the Secret Hitler ELO calculator.                  *)
(*                                                                         *)
(* The program's ratings are Python floats (IEEE-754 binary64), and the    *)
(* claims about them are exact, so the arithmetic of lines 198-231 is      *)
(* modelled bit for bit: a float is a sign, an integer significand and a   *)
(* binary exponent, and every operation rounds to 53 bits, ties to even.   *)
(* TLC's integers are 32 bits wide, so a significand is a little-endian    *)
(* sequence of 15-bit limbs.                                               *)
(***************************************************************************)
EXTENDS Integers, Sequences, FiniteSets, TLC

\* ------------------------------------------------------------------------
\* Natural numbers of any size: little-endian limbs, no leading zero limb,
\* zero is << >>.
\* ------------------------------------------------------------------------
\* one bit less than 16, so that a product of two limbs fits TLC's integers
LimbBits == 16 - 1

Base == 2^LimbBits

Min(a, b) == IF a <= b THEN a ELSE b

Max(a, b) == IF a >= b THEN a ELSE b

Limb(x, i) == IF i >= 1 /\ i <= Len(x) THEN x[i] ELSE 0

RECURSIVE BStrip(_)
BStrip(x) ==
    IF x = << >> THEN x
    ELSE IF x[Len(x)] = 0 THEN BStrip(SubSeq(x, 1, Len(x) - 1)) ELSE x

RECURSIVE BFromInt(_)
BFromInt(n) == IF n = 0 THEN << >> ELSE <<n % Base>> \o BFromInt(n \div Base)

RECURSIVE BAddFrom(_, _, _, _)
BAddFrom(x, y, i, c) ==
    IF i > Len(x) /\ i > Len(y)
    THEN (IF c = 0 THEN << >> ELSE <<c>>)
    ELSE LET s == Limb(x, i) + Limb(y, i) + c
         IN  <<s % Base>> \o BAddFrom(x, y, i + 1, s \div Base)

BAdd(x, y) == BAddFrom(x, y, 1, 0)

RECURSIVE BSubFrom(_, _, _, _)
BSubFrom(x, y, i, c) ==
    IF i > Len(x) THEN << >>
    ELSE LET s == Limb(x, i) - Limb(y, i) - c
         IN  IF s < 0
             THEN <<s + Base>> \o BSubFrom(x, y, i + 1, 1)
             ELSE <<s>> \o BSubFrom(x, y, i + 1, 0)

\* x - y for x >= y
BSub(x, y) == BStrip(BSubFrom(x, y, 1, 0))

RECURSIVE BCmpAt(_, _, _)
BCmpAt(x, y, i) ==
    IF i = 0 THEN 0
    ELSE IF x[i] < y[i] THEN -1
    ELSE IF x[i] > y[i] THEN 1
    ELSE BCmpAt(x, y, i - 1)

\* -1, 0 or 1 as x <, =, > y
BCmp(x, y) ==
    IF Len(x) < Len(y) THEN -1
    ELSE IF Len(x) > Len(y) THEN 1
    ELSE BCmpAt(x, y, Len(x))

RECURSIVE BMulSmallFrom(_, _, _, _)
BMulSmallFrom(x, m, i, c) ==
    IF i > Len(x)
    THEN (IF c = 0 THEN << >> ELSE <<c>>)
    ELSE LET p == x[i] * m + c
         IN  <<p % Base>> \o BMulSmallFrom(x, m, i + 1, p \div Base)

\* x * m for 0 <= m < Base
BMulSmall(x, m) == BStrip(BMulSmallFrom(x, m, 1, 0))

RECURSIVE BMulFrom(_, _, _)
BMulFrom(x, y, i) ==
    IF i > Len(y) THEN << >>
    ELSE BAdd(BMulSmall(x, y[i]), BStrip(<<0>> \o BMulFrom(x, y, i + 1)))

BMul(x, y) == BStrip(BMulFrom(x, y, 1))

RECURSIVE BDivSmallAt(_, _, _, _)
BDivSmallAt(x, m, i, rem) ==
    IF i = 0 THEN << >>
    ELSE LET cur == rem * Base + x[i]
         IN  BDivSmallAt(x, m, i - 1, cur % m) \o <<cur \div m>>

\* x \div m for 0 < m < Base
BDivSmall(x, m) == BStrip(BDivSmallAt(x, m, Len(x), 0))

RECURSIVE SmallBitLen(_)
SmallBitLen(n) == IF n = 0 THEN 0 ELSE 1 + SmallBitLen(n \div 2)

BBitLen(x) ==
    IF x = << >> THEN 0 ELSE LimbBits * (Len(x) - 1) + SmallBitLen(x[Len(x)])

Zeros(n) == [i \in 1..n |-> 0]

\* x * 2^s
BShl(x, s) ==
    IF x = << >> THEN x
    ELSE Zeros(s \div LimbBits) \o BMulSmall(x, 2^(s % LimbBits))

\* x \div 2^s
BShr(x, s) ==
    IF s \div LimbBits >= Len(x) THEN << >>
    ELSE BDivSmall(SubSeq(x, (s \div LimbBits) + 1, Len(x)), 2^(s % LimbBits))

BIsOdd(x) == x # << >> /\ x[1] % 2 = 1

RECURSIVE SmallTrailingZeros(_)
SmallTrailingZeros(n) == IF n % 2 = 1 THEN 0 ELSE 1 + SmallTrailingZeros(n \div 2)

RECURSIVE BTrailingZerosFrom(_, _)
BTrailingZerosFrom(x, i) ==
    IF x[i] = 0 THEN LimbBits + BTrailingZerosFrom(x, i + 1)
    ELSE SmallTrailingZeros(x[i])

\* the number of trailing zero bits of x # 0
BTrailingZeros(x) == BTrailingZerosFrom(x, 1)

RECURSIVE QuoCorrect(_, _, _)
QuoCorrect(cur, d, q) ==
    IF BCmp(BMulSmall(d, q), cur) > 0 THEN QuoCorrect(cur, d, q - 1) ELSE q

\* cur \div d for cur < d * Base, the top limb of d at least Base / 2
QuoDigit(cur, d) ==
    LET L    == Len(d)
        top2 == Limb(cur, L + 1) * Base + Limb(cur, L)
    IN  QuoCorrect(cur, d, Min(Base - 1, top2 \div d[L]))

RECURSIVE BLongDiv(_, _, _, _)
BLongDiv(n, d, i, r) ==
    IF i = 0 THEN [q |-> << >>, r |-> r]
    ELSE LET cur  == BStrip(<<n[i]>> \o r)
             qd   == QuoDigit(cur, d)
             rest == BLongDiv(n, d, i - 1, BSub(cur, BMulSmall(d, qd)))
         IN  [q |-> rest.q \o <<qd>>, r |-> rest.r]

\* [q |-> n \div d, exact |-> whether d divides n], for d # 0
BDivMod(n, d) ==
    LET s   == LimbBits - SmallBitLen(d[Len(d)])
        nn  == BShl(n, s)
        dd  == BShl(d, s)
        res == BLongDiv(nn, dd, Len(nn), << >>)
    IN  [q |-> BStrip(res.q), exact |-> res.r = << >>]

\* ------------------------------------------------------------------------
\* Python floats: [neg, m, e] is (-1)^neg * m * 2^e, m odd, or Zero.
\* ------------------------------------------------------------------------
MantBits == 53

\* the exponent of the smallest subnormal, 2^-1074
MinExp == 0 - 1074

Zero == [neg |-> FALSE, m |-> << >>, e |-> 0]

FNorm(neg, m, e) ==
    IF m = << >> THEN Zero
    ELSE LET tz == BTrailingZeros(m)
         IN  [neg |-> neg, m |-> BShr(m, tz), e |-> e + tz]

\* The float nearest to (-1)^neg * (m + f) * 2^e, where 0 < f < 1 if sticky and
\* f = 0 if not: round to nearest, ties to even. With sticky, m has at least
\* MantBits + 2 bits.
FRound(neg, m, e, sticky) ==
    LET d == Max(BBitLen(m) - MantBits, MinExp - e)
    IN  IF d <= 0 THEN FNorm(neg, m, e)
        ELSE LET kept  == BShr(m, d)
                 upper == BShr(m, d - 1)
                 guard == BIsOdd(upper)
                 rest  == sticky \/ BShl(upper, d - 1) # m
                 up    == guard /\ (rest \/ BIsOdd(kept))
             IN  FNorm(neg, IF up THEN BAdd(kept, <<1>>) ELSE kept, e + d)

FromInt(n) == IF n < 0 THEN FNorm(TRUE, BFromInt(0 - n), 0) ELSE FNorm(FALSE, BFromInt(n), 0)

FNeg(a) == IF a = Zero THEN Zero ELSE [a EXCEPT !.neg = ~a.neg]

FAbs(a) == [a EXCEPT !.neg = FALSE]

\* |a| compared with |b|: -1, 0 or 1
FCmpAbs(a, b) ==
    IF a.m = << >> \/ b.m = << >>
    THEN (IF a.m = b.m THEN 0 ELSE IF a.m = << >> THEN -1 ELSE 1)
    ELSE LET ta == a.e + BBitLen(a.m)
             tb == b.e + BBitLen(b.m)
             e0 == Min(a.e, b.e)
         IN  IF ta < tb THEN 0 - 1
             ELSE IF ta > tb THEN 1
             ELSE BCmp(BShl(a.m, a.e - e0), BShl(b.m, b.e - e0))

\* a <= b
FLeq(a, b) ==
    IF a.neg /\ ~b.neg THEN TRUE
    ELSE IF ~a.neg /\ b.neg THEN FALSE
    ELSE IF a.neg THEN FCmpAbs(a, b) >= 0
    ELSE FCmpAbs(a, b) <= 0

FLess(a, b) == a # b /\ FLeq(a, b)

\* the position above the top bit of a # 0: 2^(FTop(a) - 1) <= |a| < 2^FTop(a)
FTop(a) == a.e + BBitLen(a.m)

\* a + b where |b| is below the bits of a that rounding looks at
FAddFar(a, b) ==
    LET s  == MantBits + 3 - BBitLen(a.m)
        ms == BShl(a.m, s)
    IN  IF a.neg = b.neg
        THEN FRound(a.neg, ms, a.e - s, TRUE)
        ELSE FRound(a.neg, BSub(ms, <<1>>), a.e - s, TRUE)

FAddNear(a, b) ==
    LET e0 == Min(a.e, b.e)
        ma == BShl(a.m, a.e - e0)
        mb == BShl(b.m, b.e - e0)
        c  == BCmp(ma, mb)
    IN  IF a.neg = b.neg THEN FRound(a.neg, BAdd(ma, mb), e0, FALSE)
        ELSE IF c = 0 THEN Zero
        ELSE IF c > 0 THEN FRound(a.neg, BSub(ma, mb), e0, FALSE)
        ELSE FRound(b.neg, BSub(mb, ma), e0, FALSE)

\* Python's a + b
FAdd(a, b) ==
    IF a = Zero THEN b
    ELSE IF b = Zero THEN a
    ELSE IF FTop(a) > FTop(b) + MantBits + 5 THEN FAddFar(a, b)
    ELSE IF FTop(b) > FTop(a) + MantBits + 5 THEN FAddFar(b, a)
    ELSE FAddNear(a, b)

\* Python's a - b
FSub(a, b) == FAdd(a, FNeg(b))

\* Python's a * b
FMul(a, b) ==
    IF a = Zero \/ b = Zero THEN Zero
    ELSE FRound(a.neg # b.neg, BMul(a.m, b.m), a.e + b.e, FALSE)

\* Python's a / b for b # 0
FDiv(a, b) ==
    IF a = Zero THEN Zero
    ELSE LET t  == Max(0, MantBits + 3 + BBitLen(b.m) - BBitLen(a.m))
             qr == BDivMod(BShl(a.m, t), b.m)
         IN  FRound(a.neg # b.neg, qr.q, a.e - b.e - t, ~qr.exact)

One == FromInt(1)

\* st.session_state.player_elos.get(player, 1200)
BaselineRating == 1200

\* The float a/b of two small integers, to write a rating such as 1187.5
Ratio(a, b) == FDiv(FromInt(a), FromInt(b))

\* ------------------------------------------------------------------------
\* 10**x (line 200) is the C library's pow, which no model computes: its
\* results for the exponents the runs below reach are tabulated from CPython.
\* ------------------------------------------------------------------------
Fl(neg, m, e) == [neg |-> neg, m |-> m, e |-> e]

\* POW10-BEGIN
Pow10Table ==
    Zero :> One
    @@ Fl(TRUE, <<9175, 31457, 2088, 77>>, -43) :> Fl(FALSE, <<19849, 23963, 32424, 15>>, -1073)  \* x = -0x1.344147ae147aep+8
    @@ Fl(TRUE, <<9175, 31457, 4136, 154>>, -44) :> Fl(FALSE, <<2315, 32588, 5362, 32>>, -1074)  \* x = -0x1.3440a3d70a3d7p+8
    @@ Fl(TRUE, <<9175, 31457, 10280, 76>>, -43) :> Fl(FALSE, <<11131, 13983, 27404, 249>>, -1067)  \* x = -0x1.314147ae147aep+8
    @@ Fl(TRUE, <<9175, 31457, 20520, 152>>, -44) :> Fl(FALSE, <<4947, 6465, 20949, 125>>, -1066)  \* x = -0x1.3140a3d70a3d7p+8
    @@ Fl(TRUE, <<23593, 1310, 5335, 36>>, -42) :> Fl(FALSE, <<31385, 8157, 2609, 31>>, -1011)  \* x = -0x1.214d70a3d70a4p+8
    @@ Fl(TRUE, <<19661, 6553, 21299, 144>>, -44) :> Fl(FALSE, <<24295, 2857, 2373, 250>>, -1014)  \* x = -0x1.214cccccccccdp+8
    @@ Fl(TRUE, <<5243, 3932, 10629, 72>>, -43) :> Fl(FALSE, <<4517, 23570, 16911, 251>>, -1014)  \* x = -0x1.214c28f5c28f6p+8
    @@ Fl(TRUE, <<27525, 28835, 29818, 37>>, -46) :> Fl(FALSE, <<4443, 1904, 24152, 32>>, -113)  \* x = -0x1.2f47ae147ae14p+4
    @@ Fl(TRUE, <<23593, 1310, 29655, 37>>, -46) :> Fl(FALSE, <<4603, 30772, 23075, 131>>, -115)  \* x = -0x1.2f3d70a3d70a4p+4
    @@ Fl(TRUE, <<23593, 1310, 9175, 255>>, -49) :> Fl(FALSE, <<1907, 31260, 24847, 255>>, -106)  \* x = -0x1.fe8f5c28f5c29p+3
    @@ Fl(TRUE, <<23593, 1310, 29655, 31>>, -46) :> Fl(FALSE, <<30095, 3170, 20231, 128>>, -105)  \* x = -0x1.fe7ae147ae148p+3
    @@ Fl(TRUE, <<7>>, -1) :> Fl(FALSE, <<13963, 29921, 14699, 41>>, -62)  \* x = -0x1.c000000000000p+1
    @@ Fl(TRUE, <<13981, 21408, 8205, 3>>, -45) :> Fl(FALSE, <<22863, 16642, 20857, 73>>, -62)  \* x = -0x1.a00da740da740p+1
    @@ Fl(TRUE, <<20097, 20534, 1747, 192>>, -51) :> Fl(FALSE, <<11987, 24267, 11553, 16>>, -59)  \* x = -0x1.801b4e81b4e81p+1
    @@ Fl(TRUE, <<3>>, 0) :> Fl(FALSE, <<27263, 27000, 25165, 32>>, -60)  \* x = -0x1.8000000000000p+1
    @@ Fl(TRUE, <<13981, 21408, 24589, 2>>, -45) :> Fl(FALSE, <<4561, 25564, 28151, 232>>, -62)  \* x = -0x1.600da740da740p+1
    @@ Fl(TRUE, <<5>>, -1) :> Fl(FALSE, <<4279, 18535, 7963, 207>>, -61)  \* x = -0x1.4000000000000p+1
    @@ Fl(TRUE, <<9>>, -2) :> Fl(FALSE, <<7903, 72, 8782, 184>>, -60)  \* x = -0x1.2000000000000p+1
    @@ Fl(TRUE, <<12671, 12233, 31020, 255>>, -52) :> Fl(FALSE, <<18475, 12691, 32678, 163>>, -59)  \* x = -0x1.ffe4b17e4b17fp+0
    @@ Fl(TRUE, <<7427, 8301, 3495, 224>>, -52) :> Fl(FALSE, <<2839, 27387, 22894, 72>>, -57)  \* x = -0x1.c0369d0369d03p+0
    @@ Fl(TRUE, <<7>>, -2) :> Fl(FALSE, <<14707, 3631, 13735, 36>>, -56)  \* x = -0x1.c000000000000p+0
    @@ Fl(TRUE, <<23593, 1310, 9175, 25>>, -49) :> Fl(FALSE, <<15733, 28772, 15451, 215>>, -58)  \* x = -0x1.947ae147ae148p+0
    @@ Fl(TRUE, <<8301, 3495, 13544, 99>>, -51) :> Fl(FALSE, <<31857, 27670, 18294, 114>>, -57)  \* x = -0x1.8da740da740dap+0
    @@ Fl(TRUE, <<41, 1271, 7904, 193>>, -52) :> Fl(FALSE, <<27355, 27213, 10934, 253>>, -58)  \* x = -0x1.827b8027b8029p+0
    @@ Fl(TRUE, <<28761, 12978, 2571, 24>>, -49) :> Fl(FALSE, <<31311, 15806, 1185, 64>>, -56)  \* x = -0x1.81416cacb82c8p+0
    @@ Fl(TRUE, <<27525, 28835, 5242, 192>>, -52) :> Fl(FALSE, <<2113, 19911, 5066, 129>>, -57)  \* x = -0x1.8051eb851eb85p+0
    @@ Fl(TRUE, <<20097, 20534, 1747, 192>>, -52) :> Fl(FALSE, <<32077, 3924, 13195, 129>>, -57)  \* x = -0x1.801b4e81b4e81p+0
    @@ Fl(TRUE, <<3>>, -1) :> Fl(FALSE, <<7481, 20128, 25016, 64>>, -56)  \* x = -0x1.8000000000000p+0
    @@ Fl(TRUE, <<24467, 29272, 19223, 92>>, -51) :> Fl(FALSE, <<24571, 12334, 7394, 73>>, -56)  \* x = -0x1.7258bf258bf26p+0
    @@ Fl(TRUE, <<9175, 31457, 23592, 22>>, -49) :> Fl(FALSE, <<20907, 22884, 23775, 155>>, -57)  \* x = -0x1.6b851eb851eb8p+0
    @@ Fl(TRUE, <<32371, 20057, 19263, 179>>, -52) :> Fl(FALSE, <<9311, 22808, 30502, 161>>, -57)  \* x = -0x1.672cfe72cfe73p+0
    @@ Fl(TRUE, <<20535, 1747, 23156, 89>>, -51) :> Fl(FALSE, <<20859, 11060, 17633, 2>>, -51)  \* x = -0x1.66d3a06d3a06ep+0
    @@ Fl(TRUE, <<14343, 10357, 16989, 21>>, -49) :> Fl(FALSE, <<32729, 29457, 3960, 185>>, -57)  \* x = -0x1.584baa1d5c038p+0
    @@ Fl(TRUE, <<5243, 3932, 27525, 171>>, -52) :> Fl(FALSE, <<24205, 28902, 2435, 93>>, -56)  \* x = -0x1.57ae147ae147bp+0
    @@ Fl(TRUE, <<7427, 8301, 3495, 160>>, -52) :> Fl(FALSE, <<27033, 28254, 29276, 229>>, -57)  \* x = -0x1.40369d0369d03p+0
    @@ Fl(TRUE, <<5>>, -2) :> Fl(FALSE, <<9879, 16474, 10977, 230>>, -57)  \* x = -0x1.4000000000000p+0
    @@ Fl(TRUE, <<23593, 1310, 9175, 17>>, -49) :> Fl(FALSE, <<1323, 5882, 11312, 170>>, -56)  \* x = -0x1.147ae147ae148p+0
    @@ Fl(TRUE, <<16603, 6990, 27088, 134>>, -52) :> Fl(FALSE, <<18531, 4128, 21023, 22>>, -53)  \* x = -0x1.0da740da740dbp+0
    @@ Fl(TRUE, <<16445, 1906, 28240, 129>>, -52) :> Fl(FALSE, <<8009, 20239, 1782, 198>>, -56)  \* x = -0x1.03b9403b9403dp+0
    @@ Fl(TRUE, <<22321, 3684, 13714, 128>>, -52) :> Fl(FALSE, <<25363, 15079, 8647, 203>>, -56)  \* x = -0x1.00d6487325731p+0
    @@ Fl(TRUE, <<10049, 26651, 873, 32>>, -50) :> Fl(FALSE, <<1187, 28791, 6674, 102>>, -55)  \* x = -0x1.00369d0369d04p+0
    @@ Fl(TRUE, <<1>>, 0) :> Fl(FALSE, <<19661, 6553, 13107, 102>>, -55)  \* x = -0x1.0000000000000p+0
    @@ Fl(TRUE, <<25341, 24466, 29272, 255>>, -53) :> Fl(FALSE, <<14903, 32248, 32655, 204>>, -56)  \* x = -0x1.ffc962fc962fdp-1
    @@ Fl(TRUE, <<16165, 25777, 5679, 121>>, -52) :> Fl(FALSE, <<8855, 20325, 18345, 231>>, -56)  \* x = -0x1.e4b17e4b17e4ap-1
    @@ Fl(TRUE, <<15729, 11796, 17039, 235>>, -53) :> Fl(FALSE, <<22177, 1424, 7332, 246>>, -56)  \* x = -0x1.d70a3d70a3d71p-1
    @@ Fl(TRUE, <<30047, 13809, 22652, 28>>, -50) :> Fl(FALSE, <<5993, 25544, 31559, 64>>, -54)  \* x = -0x1.cb0f8d7c7aaf8p-1
    @@ Fl(TRUE, <<23593, 1310, 9175, 57>>, -51) :> Fl(FALSE, <<20909, 8302, 13327, 130>>, -55)  \* x = -0x1.ca3d70a3d70a4p-1
    @@ Fl(TRUE, <<16087, 23235, 22639, 54>>, -51) :> Fl(FALSE, <<24613, 19719, 18642, 71>>, -54)  \* x = -0x1.b586fb586fb5cp-1
    @@ Fl(TRUE, <<23593, 1310, 9175, 27>>, -50) :> Fl(FALSE, <<12651, 518, 29714, 71>>, -54)  \* x = -0x1.b47ae147ae148p-1
    @@ Fl(TRUE, <<3>>, -2) :> Fl(FALSE, <<7999, 18157, 3139, 182>>, -55)  \* x = -0x1.8000000000000p-1
    @@ Fl(TRUE, <<21847, 10922, 21845, 170>>, -53) :> Fl(FALSE, <<22999, 20160, 10061, 110>>, -54)  \* x = -0x1.5555555555557p-1
    @@ Fl(TRUE, <<17039, 20971, 15728, 148>>, -53) :> Fl(FALSE, <<13109, 23327, 10972, 67>>, -53)  \* x = -0x1.28f5c28f5c28fp-1
    @@ Fl(TRUE, <<435, 13981, 21408, 141>>, -53) :> Fl(FALSE, <<23439, 18204, 6484, 143>>, -54)  \* x = -0x1.1b4e81b4e81b3p-1
    @@ Fl(TRUE, <<6221, 3547, 30159, 68>>, -52) :> Fl(FALSE, <<5113, 3904, 6344, 148>>, -54)  \* x = -0x1.13ae78ddb309ap-1
    @@ Fl(TRUE, <<13107, 26214, 19660, 137>>, -53) :> Fl(FALSE, <<23509, 16441, 16871, 148>>, -54)  \* x = -0x1.1333333333333p-1
    @@ Fl(TRUE, <<1311, 9175, 31457, 136>>, -53) :> Fl(FALSE, <<3437, 10414, 12198, 149>>, -54)  \* x = -0x1.11eb851eb851fp-1
    @@ Fl(TRUE, <<8517, 21908, 10757, 68>>, -52) :> Fl(FALSE, <<15429, 26435, 25573, 149>>, -54)  \* x = -0x1.11502d594428ap-1
    @@ Fl(TRUE, <<14853, 16602, 6990, 128>>, -53) :> Fl(FALSE, <<323, 12872, 6546, 20>>, -51)  \* x = -0x1.006d3a06d3a05p-1
    @@ Fl(TRUE, <<13981, 21408, 16397>>, -45) :> Fl(FALSE, <<18217, 15562, 14363, 40>>, -52)  \* x = -0x1.00369d0369d00p-1
    @@ Fl(TRUE, <<4951, 5534, 2330, 128>>, -53) :> Fl(FALSE, <<31595, 7734, 26381, 161>>, -54)  \* x = -0x1.002468acf1357p-1
    @@ Fl(TRUE, <<1>>, -1) :> Fl(FALSE, <<18703, 17552, 29773, 161>>, -54)  \* x = -0x1.0000000000000p-1
    @@ Fl(TRUE, <<27817, 27233, 30437, 127>>, -53) :> Fl(FALSE, <<29817, 186, 400, 162>>, -54)  \* x = -0x1.ffb72ea61d952p-2
    @@ Fl(TRUE, <<18787, 11359, 16370>>, -45) :> Fl(FALSE, <<18775, 1804, 2098, 162>>, -54)  \* x = -0x1.ff92c5f92c600p-2
    @@ Fl(TRUE, <<17915, 16165, 25777, 127>>, -53) :> Fl(FALSE, <<27219, 15159, 7195, 162>>, -54)  \* x = -0x1.ff258bf258bf6p-2
    @@ Fl(TRUE, <<32333, 18786, 11359, 114>>, -53) :> Fl(FALSE, <<14329, 31802, 17434, 91>>, -53)  \* x = -0x1.c962fc962fc9ap-2
    @@ Fl(TRUE, <<435, 13981, 21408, 109>>, -53) :> Fl(FALSE, <<5691, 16590, 24227, 47>>, -52)  \* x = -0x1.b69d0369d0366p-2
    @@ Fl(TRUE, <<32317, 31708, 22932, 218>>, -54) :> Fl(FALSE, <<8287, 8076, 15705, 191>>, -54)  \* x = -0x1.b56653dee7e3dp-2
    @@ Fl(TRUE, <<31457, 23592, 1310, 215>>, -54) :> Fl(FALSE, <<26133, 20413, 21527, 194>>, -54)  \* x = -0x1.ae147ae147ae1p-2
    @@ Fl(TRUE, <<23153, 20097, 20534, 211>>, -54) :> Fl(FALSE, <<29117, 7329, 13665, 49>>, -52)  \* x = -0x1.a740da740da71p-2
    @@ Fl(TRUE, <<22723, 6116, 31894, 197>>, -54) :> Fl(FALSE, <<18277, 17388, 3043, 105>>, -53)  \* x = -0x1.8bf258bf258c3p-2
    @@ Fl(TRUE, <<29271, 19223, 25340, 98>>, -53) :> Fl(FALSE, <<7481, 22488, 9657, 105>>, -53)  \* x = -0x1.8b17e4b17e4aep-2
    @@ Fl(TRUE, <<1851, 27401, 5213, 49>>, -52) :> Fl(FALSE, <<26133, 18148, 14144, 26>>, -51)  \* x = -0x1.8945dd6121cecp-2
    @@ Fl(TRUE, <<11131, 30687, 28860, 96>>, -53) :> Fl(FALSE, <<7167, 26726, 18062, 53>>, -52)  \* x = -0x1.8385e77df56f6p-2
    @@ Fl(TRUE, <<23593, 1310, 9175, 193>>, -54) :> Fl(FALSE, <<1561, 31457, 21931, 214>>, -54)  \* x = -0x1.828f5c28f5c29p-2
    @@ Fl(TRUE, <<16589, 31304, 25810, 183>>, -54) :> Fl(FALSE, <<14833, 14053, 1041, 224>>, -54)  \* x = -0x1.6f934bd2440cdp-2
    @@ Fl(TRUE, <<15291, 30583, 28398, 45>>, -52) :> Fl(FALSE, <<25389, 14768, 11647, 224>>, -54)  \* x = -0x1.6eeeeeeeeeeecp-2
    @@ Fl(TRUE, <<10921, 21845, 10922, 85>>, -53) :> Fl(FALSE, <<26619, 30219, 27022, 118>>, -53)  \* x = -0x1.5555555555552p-2
    @@ Fl(TRUE, <<5243, 3932, 27525, 35>>, -52) :> Fl(FALSE, <<24797, 16627, 26012, 16>>, -50)  \* x = -0x1.1eb851eb851ecp-2
    @@ Fl(TRUE, <<20531, 1747, 23156, 129>>, -54) :> Fl(FALSE, <<28769, 9957, 23418, 35>>, -51)  \* x = -0x1.0369d0369d033p-2
    @@ Fl(TRUE, <<29981, 5199, 8267>>, -45) :> Fl(FALSE, <<8065, 20914, 29495, 17>>, -50)  \* x = -0x1.025944fea3a00p-2
    @@ Fl(TRUE, <<26655, 873, 27962, 128>>, -54) :> Fl(FALSE, <<21229, 15521, 13368, 143>>, -53)  \* x = -0x1.01b4e81b4e81fp-2
    @@ Fl(TRUE, <<14853, 16602, 6990, 64>>, -53) :> Fl(FALSE, <<8705, 1275, 22394, 143>>, -53)  \* x = -0x1.00da740da740ap-2
    @@ Fl(TRUE, <<14853, 16602, 6990, 128>>, -54) :> Fl(FALSE, <<8811, 10489, 26913, 143>>, -53)  \* x = -0x1.006d3a06d3a05p-2
    @@ Fl(TRUE, <<13981, 21408, 8205>>, -45) :> Fl(FALSE, <<8815, 10489, 26913, 143>>, -53)  \* x = -0x1.006d3a06d3a00p-2
    @@ Fl(TRUE, <<1>>, -2) :> Fl(FALSE, <<7183, 15388, 32102, 71>>, -52)  \* x = -0x1.0000000000000p-2
    @@ Fl(TRUE, <<18787, 11359, 8178>>, -45) :> Fl(FALSE, <<7049, 29505, 3196, 144>>, -53)  \* x = -0x1.ff258bf258c00p-3
    @@ Fl(TRUE, <<17915, 16165, 25777, 127>>, -54) :> Fl(FALSE, <<9955, 7376, 799, 36>>, -51)  \* x = -0x1.ff258bf258bf6p-3
    @@ Fl(TRUE, <<17915, 16165, 25777, 63>>, -53) :> Fl(FALSE, <<5611, 6812, 7729, 144>>, -53)  \* x = -0x1.fe4b17e4b17ecp-3
    @@ Fl(TRUE, <<13537, 7427, 8301, 231>>, -55) :> Fl(FALSE, <<14901, 24521, 3230, 76>>, -52)  \* x = -0x1.ce81b4e81b4e1p-3
    @@ Fl(TRUE, <<2391, 12859, 11738, 57>>, -53) :> Fl(FALSE, <<15493, 2050, 13459, 76>>, -52)  \* x = -0x1.cadda6476255cp-3
    @@ Fl(TRUE, <<15729, 11796, 17039, 171>>, -55) :> Fl(FALSE, <<21031, 12353, 2504, 174>>, -53)  \* x = -0x1.570a3d70a3d71p-3
    @@ Fl(TRUE, <<26793, 16456, 24175, 42>>, -53) :> Fl(FALSE, <<24547, 30422, 4902, 87>>, -52)  \* x = -0x1.55e6f8091a2a4p-3
    @@ Fl(TRUE, <<21847, 10922, 21845, 42>>, -53) :> Fl(FALSE, <<6535, 3304, 13460, 174>>, -53)  \* x = -0x1.555555555555cp-3
    @@ Fl(TRUE, <<17185, 3786, 2726>>, -44) :> Fl(FALSE, <<12701, 22375, 17116, 174>>, -53)  \* x = -0x1.54c3b2a190800p-3
    @@ Fl(TRUE, <<3497, 13544, 7427, 21>>, -52) :> Fl(FALSE, <<10675, 28407, 24436, 174>>, -53)  \* x = -0x1.53a06d3a06d48p-3
    @@ Fl(TRUE, <<5243, 3932, 27525, 163>>, -56) :> Fl(FALSE, <<18039, 7352, 30524, 212>>, -53)  \* x = -0x1.47ae147ae147bp-4
    @@ Fl(TRUE, <<6963, 27088, 14854, 218>>, -57) :> Fl(FALSE, <<13561, 26705, 19789, 56>>, -51)  \* x = -0x1.b4e81b4e81b33p-5
    @@ Fl(TRUE, <<5243, 3932, 27525, 163>>, -61) :> Fl(FALSE, <<5747, 342, 17386, 254>>, -53)  \* x = -0x1.47ae147ae147bp-9
    @@ Fl(TRUE, <<5243, 3932, 27525, 163>>, -62) :> Fl(FALSE, <<5915, 19321, 26740, 63>>, -51)  \* x = -0x1.47ae147ae147bp-10
    @@ Fl(TRUE, <<5243, 27088, 14854, 218>>, -63) :> Fl(FALSE, <<26063, 19604, 24727, 127>>, -52)  \* x = -0x1.b4e81b4e8147bp-11
    @@ Fl(TRUE, <<23593, 30874, 26796, 72>>, -62) :> Fl(FALSE, <<3751, 1189, 22044, 255>>, -53)  \* x = -0x1.23456789ab852p-11
    @@ Fl(TRUE, <<9175, 28981, 20825, 145>>, -63) :> Fl(FALSE, <<3763, 1189, 22044, 255>>, -53)  \* x = -0x1.23456789aa3d7p-11
    @@ Fl(TRUE, <<5243, 13544, 7427, 109>>, -63) :> Fl(FALSE, <<28967, 24289, 24723, 255>>, -53)  \* x = -0x1.b4e81b4e828f6p-12
    @@ Fl(TRUE, <<13981, 21408, 13>>, -45) :> Fl(FALSE, <<30873, 28528, 28745, 127>>, -52)  \* x = -0x1.b4e81b4e80000p-12
    @@ Fl(TRUE, <<23593, 30874, 26796, 72>>, -63) :> Fl(FALSE, <<20717, 9940, 27404, 255>>, -53)  \* x = -0x1.23456789ab852p-12
    @@ Fl(FALSE, <<23593, 30874, 26796, 72>>, -63) :> Fl(FALSE, <<18345, 18487, 2683, 128>>, -52)  \* x = 0x1.23456789ab852p-12
    @@ Fl(FALSE, <<13981, 21408, 13>>, -45) :> Fl(FALSE, <<9311, 32443, 4025, 128>>, -52)  \* x = 0x1.b4e81b4e80000p-12
    @@ Fl(FALSE, <<5243, 13544, 7427, 109>>, -63) :> Fl(FALSE, <<9317, 32443, 4025, 128>>, -52)  \* x = 0x1.b4e81b4e828f6p-12
    @@ Fl(FALSE, <<9175, 28981, 20825, 145>>, -63) :> Fl(FALSE, <<31767, 27700, 5368, 128>>, -52)  \* x = 0x1.23456789aa3d7p-11
    @@ Fl(FALSE, <<23593, 30874, 26796, 72>>, -62) :> Fl(FALSE, <<31773, 27700, 5368, 128>>, -52)  \* x = 0x1.23456789ab852p-11
    @@ Fl(FALSE, <<5243, 27088, 14854, 218>>, -63) :> Fl(FALSE, <<7417, 27676, 8055, 128>>, -52)  \* x = 0x1.b4e81b4e8147bp-11
    @@ Fl(FALSE, <<5243, 3932, 27525, 163>>, -62) :> Fl(FALSE, <<12273, 18588, 12089, 128>>, -52)  \* x = 0x1.47ae147ae147bp-10
    @@ Fl(FALSE, <<5243, 3932, 27525, 163>>, -61) :> Fl(FALSE, <<9399, 32153, 24213, 128>>, -52)  \* x = 0x1.47ae147ae147bp-9
    @@ Fl(FALSE, <<6963, 27088, 14854, 218>>, -57) :> Fl(FALSE, <<9627, 415, 23754, 144>>, -52)  \* x = 0x1.b4e81b4e81b33p-5
    @@ Fl(FALSE, <<5243, 3932, 27525, 163>>, -56) :> Fl(FALSE, <<13861, 17274, 29158, 153>>, -52)  \* x = 0x1.47ae147ae147bp-4
    @@ Fl(FALSE, <<3497, 13544, 7427, 21>>, -52) :> Fl(FALSE, <<30661, 21090, 16978, 187>>, -52)  \* x = 0x1.53a06d3a06d48p-3
    @@ Fl(FALSE, <<17185, 3786, 2726>>, -44) :> Fl(FALSE, <<5293, 31529, 28805, 93>>, -51)  \* x = 0x1.54c3b2a190800p-3
    @@ Fl(FALSE, <<21847, 10922, 21845, 42>>, -53) :> Fl(FALSE, <<15489, 5560, 30774, 93>>, -51)  \* x = 0x1.555555555555cp-3
    @@ Fl(FALSE, <<26793, 16456, 24175, 42>>, -53) :> Fl(FALSE, <<30589, 20855, 32743, 93>>, -51)  \* x = 0x1.55e6f8091a2a4p-3
    @@ Fl(FALSE, <<15729, 11796, 17039, 171>>, -55) :> Fl(FALSE, <<7593, 19260, 17363, 23>>, -49)  \* x = 0x1.570a3d70a3d71p-3
    @@ Fl(FALSE, <<2391, 12859, 11738, 57>>, -53) :> Fl(FALSE, <<3331, 21609, 13766, 214>>, -52)  \* x = 0x1.cadda6476255cp-3
    @@ Fl(FALSE, <<13537, 7427, 8301, 231>>, -55) :> Fl(FALSE, <<9725, 9711, 21293, 107>>, -51)  \* x = 0x1.ce81b4e81b4e1p-3
    @@ Fl(FALSE, <<17915, 16165, 25777, 63>>, -53) :> Fl(FALSE, <<10581, 5928, 19389, 113>>, -51)  \* x = 0x1.fe4b17e4b17ecp-3
    @@ Fl(FALSE, <<17915, 16165, 25777, 127>>, -54) :> Fl(FALSE, <<32097, 31876, 13155, 227>>, -52)  \* x = 0x1.ff258bf258bf6p-3
    @@ Fl(FALSE, <<18787, 11359, 8178>>, -45) :> Fl(FALSE, <<16051, 32322, 22961, 113>>, -51)  \* x = 0x1.ff258bf258c00p-3
    @@ Fl(FALSE, <<1>>, -2) :> Fl(FALSE, <<9095, 7252, 26538, 113>>, -51)  \* x = 0x1.0000000000000p-2
    @@ Fl(FALSE, <<13981, 21408, 8205>>, -45) :> Fl(FALSE, <<3429, 25491, 27467, 227>>, -52)  \* x = 0x1.006d3a06d3a00p-2
    @@ Fl(FALSE, <<14853, 16602, 6990, 128>>, -54) :> Fl(FALSE, <<18101, 29129, 30117, 113>>, -51)  \* x = 0x1.006d3a06d3a05p-2
    @@ Fl(FALSE, <<14853, 16602, 6990, 64>>, -53) :> Fl(FALSE, <<18605, 32284, 1865, 228>>, -52)  \* x = 0x1.00da740da740ap-2
    @@ Fl(FALSE, <<26655, 873, 27962, 128>>, -54) :> Fl(FALSE, <<16835, 17078, 8109, 114>>, -51)  \* x = 0x1.01b4e81b4e81fp-2
    @@ Fl(FALSE, <<29981, 5199, 8267>>, -45) :> Fl(FALSE, <<9351, 11746, 27036, 228>>, -52)  \* x = 0x1.025944fea3a00p-2
    @@ Fl(FALSE, <<20531, 1747, 23156, 129>>, -54) :> Fl(FALSE, <<8661, 29877, 12239, 229>>, -52)  \* x = 0x1.0369d0369d033p-2
    @@ Fl(FALSE, <<5243, 3932, 27525, 35>>, -52) :> Fl(FALSE, <<14327, 24759, 31112, 121>>, -51)  \* x = 0x1.1eb851eb851ecp-2
    @@ Fl(FALSE, <<10921, 21845, 10922, 85>>, -53) :> Fl(FALSE, <<28749, 624, 28961, 137>>, -51)  \* x = 0x1.5555555555552p-2
    @@ Fl(FALSE, <<15291, 30583, 28398, 45>>, -52) :> Fl(FALSE, <<21585, 27474, 1767, 146>>, -51)  \* x = 0x1.6eeeeeeeeeeecp-2
    @@ Fl(FALSE, <<16589, 31304, 25810, 183>>, -54) :> Fl(FALSE, <<32331, 4347, 4341, 73>>, -50)  \* x = 0x1.6f934bd2440cdp-2
    @@ Fl(FALSE, <<23593, 1310, 9175, 193>>, -54) :> Fl(FALSE, <<11147, 10118, 21105, 152>>, -51)  \* x = 0x1.828f5c28f5c29p-2
    @@ Fl(FALSE, <<11131, 30687, 28860, 96>>, -53) :> Fl(FALSE, <<29067, 19842, 3993, 19>>, -48)  \* x = 0x1.8385e77df56f6p-2
    @@ Fl(FALSE, <<1851, 27401, 5213, 49>>, -52) :> Fl(FALSE, <<32503, 22025, 31643, 154>>, -51)  \* x = 0x1.8945dd6121cecp-2
    @@ Fl(FALSE, <<29271, 19223, 25340, 98>>, -53) :> Fl(FALSE, <<27311, 17225, 23759, 9>>, -47)  \* x = 0x1.8b17e4b17e4aep-2
    @@ Fl(FALSE, <<22723, 6116, 31894, 197>>, -54) :> Fl(FALSE, <<16105, 11312, 31950, 38>>, -49)  \* x = 0x1.8bf258bf258c3p-2
    @@ Fl(FALSE, <<23153, 20097, 20534, 211>>, -54) :> Fl(FALSE, <<7149, 28994, 14522, 41>>, -49)  \* x = 0x1.a740da740da71p-2
    @@ Fl(FALSE, <<31457, 23592, 1310, 215>>, -54) :> Fl(FALSE, <<20481, 30963, 2761, 42>>, -49)  \* x = 0x1.ae147ae147ae1p-2
    @@ Fl(FALSE, <<32317, 31708, 22932, 218>>, -54) :> Fl(FALSE, <<4375, 15421, 4285, 171>>, -51)  \* x = 0x1.b56653dee7e3dp-2
    @@ Fl(FALSE, <<435, 13981, 21408, 109>>, -53) :> Fl(FALSE, <<8243, 21607, 26188, 85>>, -50)  \* x = 0x1.b69d0369d0366p-2
    @@ Fl(FALSE, <<32333, 18786, 11359, 114>>, -53) :> Fl(FALSE, <<31033, 27761, 16340, 89>>, -50)  \* x = 0x1.c962fc962fc9ap-2
    @@ Fl(FALSE, <<17915, 16165, 25777, 127>>, -53) :> Fl(FALSE, <<3229, 30416, 32695, 201>>, -51)  \* x = 0x1.ff258bf258bf6p-2
    @@ Fl(FALSE, <<18787, 11359, 16370>>, -45) :> Fl(FALSE, <<25549, 12276, 6281, 202>>, -51)  \* x = 0x1.ff92c5f92c600p-2
    @@ Fl(FALSE, <<27817, 27233, 30437, 127>>, -53) :> Fl(FALSE, <<23109, 17860, 8400, 202>>, -51)  \* x = 0x1.ffb72ea61d952p-2
    @@ Fl(FALSE, <<1>>, -1) :> Fl(FALSE, <<23379, 30132, 12640, 202>>, -51)  \* x = 0x1.0000000000000p-1
    @@ Fl(FALSE, <<4951, 5534, 2330, 128>>, -53) :> Fl(FALSE, <<20887, 233, 16884, 202>>, -51)  \* x = 0x1.002468acf1357p-1
    @@ Fl(FALSE, <<13981, 21408, 16397>>, -45) :> Fl(FALSE, <<30443, 21043, 21135, 50>>, -49)  \* x = 0x1.00369d0369d00p-1
    @@ Fl(FALSE, <<14853, 16602, 6990, 128>>, -53) :> Fl(FALSE, <<23709, 9536, 11364, 25>>, -48)  \* x = 0x1.006d3a06d3a05p-1
    @@ Fl(FALSE, <<8517, 21908, 10757, 68>>, -52) :> Fl(FALSE, <<22785, 15980, 25347, 218>>, -51)  \* x = 0x1.11502d594428ap-1
    @@ Fl(FALSE, <<1311, 9175, 31457, 136>>, -53) :> Fl(FALSE, <<4753, 24427, 22468, 109>>, -50)  \* x = 0x1.11eb851eb851fp-1
    @@ Fl(FALSE, <<13107, 26214, 19660, 137>>, -53) :> Fl(FALSE, <<25333, 17836, 18996, 27>>, -48)  \* x = 0x1.1333333333333p-1
    @@ Fl(FALSE, <<6221, 3547, 30159, 68>>, -52) :> Fl(FALSE, <<10995, 28738, 26861, 13>>, -47)  \* x = 0x1.13ae78ddb309ap-1
    @@ Fl(FALSE, <<435, 13981, 21408, 141>>, -53) :> Fl(FALSE, <<1527, 23369, 13601, 114>>, -50)  \* x = 0x1.1b4e81b4e81b3p-1
    @@ Fl(FALSE, <<17039, 20971, 15728, 148>>, -53) :> Fl(FALSE, <<8089, 17325, 10525, 243>>, -51)  \* x = 0x1.28f5c28f5c28fp-1
    @@ Fl(FALSE, <<21847, 10922, 21845, 170>>, -53) :> Fl(FALSE, <<12541, 10695, 8697, 74>>, -49)  \* x = 0x1.5555555555557p-1
    @@ Fl(FALSE, <<3>>, -2) :> Fl(FALSE, <<8979, 2851, 31936, 89>>, -49)  \* x = 0x1.8000000000000p-1
    @@ Fl(FALSE, <<23593, 1310, 9175, 27>>, -50) :> Fl(FALSE, <<2317, 1734, 27869, 227>>, -50)  \* x = 0x1.b47ae147ae148p-1
    @@ Fl(FALSE, <<16087, 23235, 22639, 54>>, -51) :> Fl(FALSE, <<213, 18730, 20177, 28>>, -47)  \* x = 0x1.b586fb586fb5cp-1
    @@ Fl(FALSE, <<23593, 1310, 9175, 57>>, -51) :> Fl(FALSE, <<5327, 6684, 20896, 125>>, -49)  \* x = 0x1.ca3d70a3d70a4p-1
    @@ Fl(FALSE, <<30047, 13809, 22652, 28>>, -50) :> Fl(FALSE, <<16445, 15507, 6704, 252>>, -50)  \* x = 0x1.cb0f8d7c7aaf8p-1
    @@ Fl(FALSE, <<15729, 11796, 17039, 235>>, -53) :> Fl(FALSE, <<11275, 20979, 2693, 133>>, -49)  \* x = 0x1.d70a3d70a3d71p-1
    @@ Fl(FALSE, <<16165, 25777, 5679, 121>>, -52) :> Fl(FALSE, <<17515, 17611, 16706, 141>>, -49)  \* x = 0x1.e4b17e4b17e4ap-1
    @@ Fl(FALSE, <<25341, 24466, 29272, 255>>, -53) :> Fl(FALSE, <<5819, 11085, 27740, 159>>, -49)  \* x = 0x1.ffc962fc962fdp-1
    @@ Fl(FALSE, <<1>>, 0) :> Fl(FALSE, <<5>>, 1)  \* x = 0x1.0000000000000p+0
    @@ Fl(FALSE, <<10049, 26651, 873, 32>>, -50) :> Fl(FALSE, <<26895, 14792, 2517, 40>>, -47)  \* x = 0x1.00369d0369d04p+0
    @@ Fl(FALSE, <<22321, 3684, 13714, 128>>, -52) :> Fl(FALSE, <<2079, 11511, 6853, 161>>, -49)  \* x = 0x1.00d6487325731p+0
    @@ Fl(FALSE, <<16445, 1906, 28240, 129>>, -52) :> Fl(FALSE, <<655, 30917, 14728, 165>>, -49)  \* x = 0x1.03b9403b9403dp+0
    @@ Fl(FALSE, <<16603, 6990, 27088, 134>>, -52) :> Fl(FALSE, <<18307, 8451, 14846, 90>>, -48)  \* x = 0x1.0da740da740dbp+0
    @@ Fl(FALSE, <<23593, 1310, 9175, 17>>, -49) :> Fl(FALSE, <<943, 5209, 11872, 192>>, -49)  \* x = 0x1.147ae147ae148p+0
    @@ Fl(FALSE, <<5>>, -2) :> Fl(FALSE, <<11369, 25449, 8596, 142>>, -48)  \* x = 0x1.4000000000000p+0
    @@ Fl(FALSE, <<7427, 8301, 3495, 160>>, -52) :> Fl(FALSE, <<28013, 7889, 17550, 142>>, -48)  \* x = 0x1.40369d0369d03p+0
    @@ Fl(FALSE, <<5243, 3932, 27525, 171>>, -52) :> Fl(FALSE, <<21073, 27633, 1026, 176>>, -48)  \* x = 0x1.57ae147ae147bp+0
    @@ Fl(FALSE, <<14343, 10357, 16989, 21>>, -49) :> Fl(FALSE, <<24369, 933, 16526, 88>>, -47)  \* x = 0x1.584baa1d5c038p+0
    @@ Fl(FALSE, <<20535, 1747, 23156, 89>>, -51) :> Fl(FALSE, <<13391, 1086, 28239, 100>>, -47)  \* x = 0x1.66d3a06d3a06ep+0
    @@ Fl(FALSE, <<32371, 20057, 19263, 179>>, -52) :> Fl(FALSE, <<20525, 26121, 5864, 101>>, -47)  \* x = 0x1.672cfe72cfe73p+0
    @@ Fl(FALSE, <<9175, 31457, 23592, 22>>, -49) :> Fl(FALSE, <<17409, 14128, 19836, 52>>, -46)  \* x = 0x1.6b851eb851eb8p+0
    @@ Fl(FALSE, <<24467, 29272, 19223, 92>>, -51) :> Fl(FALSE, <<28429, 3868, 24468, 223>>, -48)  \* x = 0x1.7258bf258bf26p+0
    @@ Fl(FALSE, <<3>>, -1) :> Fl(FALSE, <<29223, 4897, 32185, 252>>, -48)  \* x = 0x1.8000000000000p+0
    @@ Fl(FALSE, <<20097, 20534, 1747, 192>>, -52) :> Fl(FALSE, <<29863, 18112, 10035, 63>>, -46)  \* x = 0x1.801b4e81b4e81p+0
    @@ Fl(FALSE, <<27525, 28835, 5242, 192>>, -52) :> Fl(FALSE, <<14623, 20558, 28039, 126>>, -47)  \* x = 0x1.8051eb851eb85p+0
    @@ Fl(FALSE, <<28761, 12978, 2571, 24>>, -49) :> Fl(FALSE, <<2789, 24558, 28028, 255>>, -48)  \* x = 0x1.81416cacb82c8p+0
    @@ Fl(FALSE, <<41, 1271, 7904, 193>>, -52) :> Fl(FALSE, <<5897, 5862, 22072, 64>>, -46)  \* x = 0x1.827b8027b8029p+0
    @@ Fl(FALSE, <<8301, 3495, 13544, 99>>, -51) :> Fl(FALSE, <<21435, 2317, 16693, 71>>, -46)  \* x = 0x1.8da740da740dap+0
    @@ Fl(FALSE, <<23593, 1310, 9175, 25>>, -49) :> Fl(FALSE, <<9153, 14924, 2482, 152>>, -47)  \* x = 0x1.947ae147ae148p+0
    @@ Fl(FALSE, <<7>>, -2) :> Fl(FALSE, <<6063, 7128, 30688, 224>>, -47)  \* x = 0x1.c000000000000p+0
    @@ Fl(FALSE, <<7427, 8301, 3495, 224>>, -52) :> Fl(FALSE, <<577, 29076, 12076, 225>>, -47)  \* x = 0x1.c0369d0369d03p+0
    @@ Fl(FALSE, <<12671, 12233, 31020, 255>>, -52) :> Fl(FALSE, <<3867, 28040, 31196, 49>>, -44)  \* x = 0x1.ffe4b17e4b17fp+0
    @@ Fl(FALSE, <<9>>, -2) :> Fl(FALSE, <<22403, 31811, 27129, 177>>, -45)  \* x = 0x1.2000000000000p+1
    @@ Fl(FALSE, <<5>>, -1) :> Fl(FALSE, <<5977, 23541, 3731, 158>>, -44)  \* x = 0x1.4000000000000p+1
    @@ Fl(FALSE, <<13981, 21408, 24589, 2>>, -45) :> Fl(FALSE, <<13817, 16163, 5900, 35>>, -41)  \* x = 0x1.600da740da740p+1
    @@ Fl(FALSE, <<3>>, 0) :> Fl(FALSE, <<125>>, 3)  \* x = 0x1.8000000000000p+1
    @@ Fl(FALSE, <<20097, 20534, 1747, 192>>, -51) :> Fl(FALSE, <<25637, 16969, 20317, 62>>, -41)  \* x = 0x1.801b4e81b4e81p+1
    @@ Fl(FALSE, <<13981, 21408, 8205, 3>>, -45) :> Fl(FALSE, <<13573, 15, 20466, 55>>, -40)  \* x = 0x1.a00da740da740p+1
    @@ Fl(FALSE, <<7>>, -1) :> Fl(FALSE, <<15663, 21234, 21048, 197>>, -41)  \* x = 0x1.c000000000000p+1
    @@ Fl(FALSE, <<23593, 1310, 29655, 31>>, -46) :> Fl(FALSE, <<26103, 1236, 25268, 254>>, 0)  \* x = 0x1.fe7ae147ae148p+3
    @@ Fl(FALSE, <<23593, 1310, 9175, 255>>, -49) :> Fl(FALSE, <<22105, 25079, 3963, 128>>, 1)  \* x = 0x1.fe8f5c28f5c29p+3
    @@ Fl(FALSE, <<23593, 1310, 29655, 37>>, -46) :> Fl(FALSE, <<26515, 26807, 26211, 248>>, 10)  \* x = 0x1.2f3d70a3d70a4p+4
    @@ Fl(FALSE, <<27525, 28835, 29818, 37>>, -46) :> Fl(FALSE, <<28481, 28331, 3870, 125>>, 11)  \* x = 0x1.2f47ae147ae14p+4
    @@ Fl(FALSE, <<5243, 3932, 10629, 72>>, -43) :> Fl(FALSE, <<6797, 26868, 9237, 130>>, 909)  \* x = 0x1.214c28f5c28f6p+8
    @@ Fl(FALSE, <<19661, 6553, 21299, 144>>, -44) :> Fl(FALSE, <<9241, 14234, 12427, 16>>, 912)  \* x = 0x1.214cccccccccdp+8
    @@ Fl(FALSE, <<23593, 1310, 5335, 36>>, -42) :> Fl(FALSE, <<12289, 27945, 31051, 32>>, 911)  \* x = 0x1.214d70a3d70a4p+8
    @@ Fl(FALSE, <<9175, 31457, 20520, 152>>, -44) :> Fl(FALSE, <<18027, 8166, 13272, 130>>, 962)  \* x = 0x1.3140a3d70a3d7p+8
    @@ Fl(FALSE, <<9175, 31457, 10280, 76>>, -43) :> Fl(FALSE, <<18259, 6404, 5173, 131>>, 962)  \* x = 0x1.314147ae147aep+8
    @@ Fl(FALSE, <<9175, 31457, 4136, 154>>, -44) :> Fl(FALSE, <<4805, 5927, 11425, 127>>, 972)  \* x = 0x1.3440a3d70a3d7p+8
\* POW10-END

\* what 10**x raises when the result is beyond the largest float
OverflowError == [raised |-> "OverflowError"]

\* the largest x for which 10**x is a float: 0x1.34413509f79fep+8, 308.25...
MaxExponent == Fl(FALSE, <<15615, 20639, 2086, 77>>, -43)

\* 10**x
Pow10(x) == IF FLess(MaxExponent, x) THEN OverflowError ELSE Pow10Table[x]

\* ------------------------------------------------------------------------
\* The rating engine, lines 198-231
\* ------------------------------------------------------------------------
Range(s) == {s[i] : i \in 1..Len(s)}

\* mutant: a missing player counts as 0
GetOrZero(elos, player) ==
    IF player \in DOMAIN elos THEN elos[player] ELSE Zero

\* dict.get(player, 1200)
Get(elos, player) ==
    IF player \in DOMAIN elos THEN elos[player] ELSE FromInt(BaselineRating)

\* [elos.get(player, 1200) for player in players]
Ratings(elos, players) == [i \in 1..Len(players) |-> Get(elos, players[i])]

RECURSIVE SumFrom(_, _, _)
SumFrom(xs, i, acc) ==
    IF i > Len(xs) THEN acc ELSE SumFrom(xs, i + 1, FAdd(acc, xs[i]))

\* sum(xs): from 0, left to right
Sum(xs) == SumFrom(xs, 1, Zero)

\* sum(xs) / len(xs), for xs not empty
Average(xs) == FDiv(Sum(xs), FromInt(Len(xs)))

ScaleDivisor == 400

\* mutant: 2 for the 1 of the denominator
ExpectedOfTwo(power) ==
    IF power = OverflowError THEN OverflowError
    ELSE FDiv(One, FAdd(FromInt(2), power))

\* 1 / (1 + power), unless 10**x raised
ExpectedOf(power) ==
    IF power = OverflowError THEN OverflowError
    ELSE FDiv(One, FAdd(One, power))

calculate_expected_score_two(rating_a, rating_b) ==
    ExpectedOfTwo(Pow10(FDiv(FSub(rating_b, rating_a), FromInt(ScaleDivisor))))

calculate_expected_score(rating_a, rating_b) ==
    ExpectedOf(Pow10(FDiv(FSub(rating_b, rating_a), FromInt(ScaleDivisor))))

\* k_factor * (actual_score - expected_score), unless calculate_expected_score raised
ChangeOf(k_factor, actual_score, expected_score) ==
    IF expected_score = OverflowError THEN OverflowError
    ELSE FMul(FromInt(k_factor), FSub(actual_score, expected_score))

\* mutant: a loss scores -1, not 0
RatingChangeMinusOne(elos, team_players, opposing_players, won, k_factor) ==
    ChangeOf(k_factor, IF won THEN One ELSE FromInt(0 - 1),
             calculate_expected_score(Average(Ratings(elos, team_players)),
                                      Average(Ratings(elos, opposing_players))))

\* rating_change of lines 207-218
RatingChange(elos, team_players, opposing_players, won, k_factor) ==
    ChangeOf(k_factor, IF won THEN One ELSE Zero,
             calculate_expected_score(Average(Ratings(elos, team_players)),
                                      Average(Ratings(elos, opposing_players))))

\* lines 221-229: every player of the team gets the one rating_change
UpdatesOf(elos, team_players, rating_change) ==
    IF rating_change = OverflowError THEN OverflowError
    ELSE [player \in Range(team_players) |->
             [old_rating |-> Get(elos, player),
              new_rating |-> FAdd(Get(elos, player), rating_change),
              change     |-> rating_change]]

\* mutant: each player's change from that player's own rating, not the team's average
calculate_team_elo_update_own(elos, team_players, opposing_players, won, k_factor) ==
    IF \E player \in Range(team_players) :
           RatingChange(elos, <<player>>, opposing_players, won, k_factor) = OverflowError
    THEN OverflowError
    ELSE [player \in Range(team_players) |->
             UpdatesOf(elos, <<player>>,
                 RatingChange(elos, <<player>>, opposing_players, won, k_factor))[player]]

calculate_team_elo_update(elos, team_players, opposing_players, won, k_factor) ==
    UpdatesOf(elos, team_players,
              RatingChange(elos, team_players, opposing_players, won, k_factor))

\* ------------------------------------------------------------------------
\* The two worksheets. A worksheet is modelled by its data rows: row i of the
\* model is row i + 1 of the sheet, under the header row that get_worksheet
\* writes (lines 54-64). The clock (datetime.now()) is not modelled: every
\* time stamp is the same text.
\* ------------------------------------------------------------------------
Now == "now"

\* a row of the Players sheet with nothing in it; an ELO cell is << >> when
\* empty and <<v>> when it holds the number v
EmptyRow == [Player |-> "", ELO |-> << >>, Last_Updated |-> ""]

\* the rows up to the last one that is not empty: what get_all_values returns
\* under the header
RECURSIVE TrimRows(_)
TrimRows(rows) ==
    IF rows # << >> /\ rows[Len(rows)] = EmptyRow
    THEN TrimRows(SubSeq(rows, 1, Len(rows) - 1))
    ELSE rows

\* len(worksheet.get_all_values())
SheetLen(rows) == Len(rows) + 1

\* worksheet.batch_clear(["A{first}:C{last}"]), first >= 2
ClearRange(rows, first, last) ==
    TrimRows([i \in 1..Len(rows) |->
                 IF i >= first - 1 /\ i <= last - 1 THEN EmptyRow ELSE rows[i]])

\* worksheet.update("A{first}:...", data), first >= 2: data[j] goes to sheet
\* row first + j - 1
UpdateRange(rows, first, data) ==
    [i \in 1..Max(Len(rows), first + Len(data) - 2) |->
        IF i >= first - 1 /\ i <= first + Len(data) - 2 THEN data[i - first + 2]
        ELSE IF i <= Len(rows) THEN rows[i]
        ELSE EmptyRow]

\* d[k] = v
Put(d, k, v) == [x \in DOMAIN d \cup {k} |-> IF x = k THEN v ELSE d[x]]

\* The players of the model, in the order a dict of them is iterated. (A
\* Python dict iterates in insertion order; the order of the rows does not
\* change what load_player_elos returns.)
PlayerOrder == <<"A", "B", "C", "D", "E", "F">>

Players == Range(PlayerOrder)

Keys(d) == SelectSeq(PlayerOrder, LAMBDA p : p \in DOMAIN d)

\* bool(row.get('ELO')): an empty cell and the number 0 are both false
Truthy(cell) == cell # << >> /\ cell[1] # Zero

RECURSIVE LoadRows(_, _, _)
LoadRows(rows, i, player_elos_acc) ==
    IF i > Len(rows) THEN player_elos_acc
    ELSE IF rows[i].Player # "" /\ Truthy(rows[i].ELO)
         THEN LoadRows(rows, i + 1, Put(player_elos_acc, rows[i].Player, rows[i].ELO[1]))
         ELSE LoadRows(rows, i + 1, player_elos_acc)

\* The calls of gspread that may raise, and "none"
LoadOutcomes == {"none", "get_worksheet", "get_all_records"}

load_player_elos(rows, fail) ==
    IF fail # "none" THEN << >> ELSE LoadRows(rows, 1, << >>)

SaveOutcomes == {"none", "get_worksheet", "get_all_values", "batch_clear", "update"}

\* [sheet |-> the rows after the call, ok |-> the value returned]
save_player_elos(rows, elos, fail) ==
    LET current_len    == SheetLen(rows)
        cleared        == IF current_len > 1 THEN ClearRange(rows, 2, current_len) ELSE rows
        data_to_upload == [i \in 1..Len(Keys(elos)) |->
                              [Player       |-> Keys(elos)[i],
                               ELO          |-> <<elos[Keys(elos)[i]]>>,
                               Last_Updated |-> Now]]
    IN  IF fail \in {"get_worksheet", "get_all_values"} THEN [sheet |-> rows, ok |-> FALSE]
        ELSE IF current_len > 1 /\ fail = "batch_clear" THEN [sheet |-> rows, ok |-> FALSE]
        ELSE IF data_to_upload = << >> THEN [sheet |-> cleared, ok |-> TRUE]
        ELSE IF fail = "update" THEN [sheet |-> cleared, ok |-> FALSE]
        ELSE [sheet |-> UpdateRange(cleared, 2, data_to_upload), ok |-> TRUE]

\* ', '.join(names)
RECURSIVE Join(_)
Join(names) ==
    IF names = << >> THEN ""
    ELSE IF Len(names) = 1 THEN names[1]
    ELSE names[1] \o ", " \o Join(Tail(names))

\* str(d) of a dict of floats: repr prints a float so that it reads back as
\* the same float, so the text is modelled by the dict it spells
Str(d) == <<"str", d>>

MatchRow(data) ==
    [Date                |-> data.date,
     Liberal_Team        |-> Join(data.liberal_team),
     Fascist_Team        |-> Join(data.fascist_team),
     Hitler              |-> data.hitler,
     Winning_Team        |-> data.winning_team,
     Game_End_Condition  |-> data.game_end_condition,
     Shooter             |-> data.shooter,
     Shot_Player         |-> data.shot_player,
     Liberal_ELO_Changes |-> Str(data.liberal_elo_changes),
     Fascist_ELO_Changes |-> Str(data.fascist_elo_changes),
     Match_Notes         |-> data.notes]

AppendOutcomes == {"none", "get_worksheet", "get_all_values", "update"}

\* mutant: the last row, not the one after it
NextRowLast(existing_len) == existing_len

\* the row the new record is written to
NextRow(existing_len) == existing_len + 1

save_match_history(rows, data, fail) ==
    IF fail # "none" THEN [sheet |-> rows, ok |-> FALSE]
    ELSE [sheet |-> UpdateRange(rows, NextRow(SheetLen(rows)), <<MatchRow(data)>>),
          ok    |-> TRUE]

load_match_history(rows, fail) == IF fail # "none" THEN << >> ELSE rows

\* ------------------------------------------------------------------------
\* The application, main(): one Streamlit session and the two worksheets
\* ------------------------------------------------------------------------
VARIABLES
    player_elos,      \* st.session_state.player_elos
    sheets_loaded,    \* st.session_state.sheets_loaded
    players_sheet,    \* the data rows of the "Players" worksheet
    history_sheet,    \* the data rows of the "Match_History" worksheet
    pc,               \* where the script run is
    liberal_size, fascist_size,
    liberal_players, fascist_players,
    winning_team, k_factor,
    liberal_updates, fascist_updates,
    match_data,
    elo_saved, match_saved,
    report,           \* the message the run shows
    adds, matches     \* how many players were added, how many matches calculated

vars == <<player_elos, sheets_loaded, players_sheet, history_sheet, pc,
          liberal_size, fascist_size, liberal_players, fascist_players,
          winning_team, k_factor, liberal_updates, fascist_updates,
          match_data, elo_saved, match_saved, report, adds, matches>>

sheets == <<players_sheet, history_sheet>>

session == <<player_elos, sheets_loaded>>

\* what one script run computes on its way down main()
locals == <<liberal_size, fascist_size, liberal_players, fascist_players,
            winning_team, k_factor, liberal_updates, fascist_updates,
            match_data, elo_saved, match_saved, report>>

NoLocals ==
    /\ liberal_size = 0
    /\ fascist_size = 0
    /\ liberal_players = << >>
    /\ fascist_players = << >>
    /\ winning_team = ""
    /\ k_factor = 0
    /\ liberal_updates = << >>
    /\ fascist_updates = << >>
    /\ match_data = << >>
    /\ elo_saved = FALSE
    /\ match_saved = FALSE
    /\ report = ""

\* --- bounds of the model
MaxAdds == 2

MaxMatches == 1

\* text_input("Add New Player:"): a name the store may hold, and one it does not
NewPlayers == {"E", "F"}

\* number_input("Initial ELO:", min_value=0, value=1200)
InitialElos == {0, 1200}

\* slider("K-Factor", min_value=16, max_value=64, value=32)
KFactors == {32}

Row(player, elo) == [Player |-> player, ELO |-> <<FromInt(elo)>>, Last_Updated |-> Now]

\* what the Players worksheet may hold when the session starts
InitialPlayersSheets ==
    { << >>,
      <<Row("A", 1200), Row("B", 1200), Row("C", 1200), Row("D", 1200)>>,
      <<Row("A", 1400), Row("B", 1400), Row("C", 1400), Row("D", 1200), Row("E", 1200)>> }

OldMatch ==
    [date                |-> Now,
     liberal_team        |-> <<"A", "B", "C">>,
     fascist_team        |-> <<"D", "E">>,
     hitler              |-> "D",
     winning_team        |-> "Fascist",
     game_end_condition  |-> "5 Fascist Policies",
     shooter             |-> "",
     shot_player         |-> "",
     liberal_elo_changes |-> [q \in {"A", "B", "C"} |-> FromInt(0 - 16)],
     fascist_elo_changes |-> [q \in {"D", "E"} |-> FromInt(16)],
     notes               |-> ""]

\* what the Match_History worksheet may hold when the session starts
InitialHistorySheets == { << >>, <<MatchRow(OldMatch)>> }

\* the selectboxes of lines 480-514: "" is a box left empty
Lineups ==
    { [liberal |-> <<"A", "B", "C">>, fascist |-> <<"D", "E">>],
      [liberal |-> <<"A", "B", "C">>, fascist |-> <<"C", "D">>],
      [liberal |-> <<"A", "A", "B">>, fascist |-> <<"D", "E">>],
      [liberal |-> <<"A", "B", "">>, fascist |-> <<"D", "E">>],
      [liberal |-> <<"A", "B", "C", "D">>, fascist |-> <<"E", "">>] }

\* one of the four options of line 561
GameEndOptions == {"Hitler Shot"}

Init ==
    /\ player_elos = << >>
    /\ sheets_loaded = FALSE
    /\ players_sheet \in InitialPlayersSheets
    /\ history_sheet \in InitialHistorySheets
    /\ pc = "idle"
    /\ NoLocals
    /\ adds = 0
    /\ matches = 0

\* int(elo): towards zero
ToInt(elo) ==
    IF elo.e >= 0 THEN elo ELSE FNorm(elo.neg, BShr(elo.m, 0 - elo.e), 0)

\* number_input(min_value=0, value=int(elo)) raises when int(elo) < 0
BelowMin(elo) == FLess(ToInt(elo), Zero)

\* lines 441-448 with no rating edited: number_input returns its value,
\* int(elo), and `if new_elo != elo` stores it; at a rating below the minimum
\* number_input raises and the run ends there
RECURSIVE PanelFrom(_, _)
PanelFrom(elos, i) ==
    IF i > Len(Keys(elos)) THEN elos
    ELSE LET player  == Keys(elos)[i]
             elo     == elos[player]
             new_elo == ToInt(elo)
         IN  IF BelowMin(elo) THEN elos
             ELSE PanelFrom(IF new_elo # elo THEN [elos EXCEPT ![player] = new_elo]
                                             ELSE elos, i + 1)

\* the panel "Manage Player ELO Ratings", rendered in every run
Panel(elos) == PanelFrom(elos, 1)

\* the run ends in the panel, before the game form
PanelRaises(elos) == \E player \in DOMAIN elos : BelowMin(elos[player])

\* lines 268-274: the load at the top of every run until one has succeeded
AutoLoad(fail) ==
    /\ pc = "idle"
    /\ ~sheets_loaded /\ player_elos = << >>
    /\ LET loaded_elos == load_player_elos(players_sheet, fail)
       IN  IF loaded_elos # << >>
           THEN player_elos' = Panel(loaded_elos) /\ sheets_loaded' = TRUE
           ELSE UNCHANGED session
    /\ UNCHANGED <<sheets, pc, locals, adds, matches>>

\* lines 311-318, 385-394, 408-415: the three buttons that load
LoadFromSheets(fail) ==
    /\ pc = "idle"
    /\ LET loaded_elos == load_player_elos(players_sheet, fail)
       IN  IF loaded_elos # << >>
           THEN player_elos' = Panel(loaded_elos) /\ sheets_loaded' = TRUE
           ELSE UNCHANGED session
    /\ UNCHANGED <<sheets, pc, locals, adds, matches>>

\* lines 397-405 and 459-464: the two buttons that save
SaveToSheets(fail) ==
    /\ pc = "idle"
    /\ player_elos # << >>
    /\ LET saved == save_player_elos(players_sheet, player_elos, fail)
       IN  /\ players_sheet' = saved.sheet
           /\ report' = IF saved.ok THEN "Player data saved to Google Sheets!"
                                    ELSE "Failed to save data."
    /\ pc' = "shown"
    /\ UNCHANGED <<session, history_sheet, liberal_size, fascist_size,
                   liberal_players, fascist_players, winning_team, k_factor,
                   liberal_updates, fascist_updates, match_data, elo_saved,
                   match_saved, adds, matches>>

\* lines 428-434
AddPlayer(new_player, initial_elo) ==
    /\ pc = "idle"
    /\ adds < MaxAdds
    /\ new_player # ""
    /\ IF new_player \notin DOMAIN player_elos
       THEN /\ player_elos' = Put(player_elos, new_player, FromInt(initial_elo))
            /\ adds' = adds + 1
       ELSE UNCHANGED <<player_elos, adds>>
    /\ UNCHANGED <<sheets_loaded, sheets, pc, locals, matches>>

\* the boxes that were filled, lines 482-489 and 497-514
Selected(boxes) == SelectSeq(boxes, LAMBDA player : player # "")

\* lines 469-581: the widgets of the game form
SetUpGame(lineup, winner, k) ==
    /\ pc = "idle"
    /\ matches < MaxMatches
    /\ ~PanelRaises(player_elos)
    /\ player_elos # << >>
    /\ Range(Selected(lineup.liberal)) \cup Range(Selected(lineup.fascist))
           \subseteq DOMAIN player_elos
    /\ liberal_size' = Len(lineup.liberal)
    /\ fascist_size' = Len(lineup.fascist)
    /\ liberal_players' = Selected(lineup.liberal)
    /\ fascist_players' = Selected(lineup.fascist)
    /\ winning_team' = winner
    /\ k_factor' = k
    /\ pc' = "validation"
    /\ UNCHANGED <<session, sheets, liberal_updates, fascist_updates, match_data,
                   elo_saved, match_saved, report, adds, matches>>

\* mutant: < for !=
HasRepeatLess(all_selected_players) ==
    Len(all_selected_players) < Cardinality(Range(all_selected_players))

\* line 518: len(all_selected_players) != len(set(all_selected_players))
HasRepeat(all_selected_players) ==
    Len(all_selected_players) # Cardinality(Range(all_selected_players))

\* line 522
Incomplete(lib, lib_size, fas, fas_size) == Len(lib) # lib_size \/ Len(fas) # fas_size

\* lines 516-520
RejectRepeat ==
    /\ pc = "validation"
    /\ HasRepeat(liberal_players \o fascist_players)
    /\ report' = "Each player can only be on one team!"
    /\ pc' = "shown"
    /\ UNCHANGED <<session, sheets, liberal_size, fascist_size, liberal_players,
                   fascist_players, winning_team, k_factor, liberal_updates,
                   fascist_updates, match_data, elo_saved, match_saved, adds, matches>>

\* lines 522-524
RejectIncomplete ==
    /\ pc = "validation"
    /\ ~HasRepeat(liberal_players \o fascist_players)
    /\ Incomplete(liberal_players, liberal_size, fascist_players, fascist_size)
    /\ report' = "Please select all players for both teams."
    /\ pc' = "shown"
    /\ UNCHANGED <<session, sheets, liberal_size, fascist_size, liberal_players,
                   fascist_players, winning_team, k_factor, liberal_updates,
                   fascist_updates, match_data, elo_saved, match_saved, adds, matches>>

\* mutant: the new ratings are written into the snapshot as they are computed
CalculateAndApply ==
    /\ pc = "validation"
    /\ ~HasRepeat(liberal_players \o fascist_players)
    /\ ~Incomplete(liberal_players, liberal_size, fascist_players, fascist_size)
    /\ liberal_updates' = calculate_team_elo_update(player_elos, liberal_players,
                             fascist_players, winning_team = "Liberal", k_factor)
    /\ fascist_updates' = calculate_team_elo_update(player_elos, fascist_players,
                             liberal_players, winning_team = "Fascist", k_factor)
    /\ player_elos' = [p \in DOMAIN player_elos |->
                          IF p \in DOMAIN liberal_updates'
                          THEN liberal_updates'[p].new_rating ELSE player_elos[p]]
    /\ matches' = matches + 1
    /\ pc' = "calculated"
    /\ UNCHANGED <<sheets_loaded, sheets, liberal_size, fascist_size, liberal_players,
                   fascist_players, winning_team, k_factor, match_data, elo_saved,
                   match_saved, report, adds>>

\* lines 583-589; an OverflowError of either call is not caught: the run ends
\* there, with the exception on the page and no updates
CalculateEloUpdates ==
    /\ pc = "validation"
    /\ ~HasRepeat(liberal_players \o fascist_players)
    /\ ~Incomplete(liberal_players, liberal_size, fascist_players, fascist_size)
    /\ \E lib \in {calculate_team_elo_update(player_elos, liberal_players,
                       fascist_players, winning_team = "Liberal", k_factor)},
          fas \in {calculate_team_elo_update(player_elos, fascist_players,
                       liberal_players, winning_team = "Fascist", k_factor)} :
           LET raised == lib = OverflowError \/ fas = OverflowError
           IN  /\ liberal_updates' = IF raised THEN << >> ELSE lib
               /\ fascist_updates' = IF raised THEN << >> ELSE fas
               /\ pc' = IF raised THEN "shown" ELSE "calculated"
               /\ report' = IF raised THEN "OverflowError" ELSE report
    /\ matches' = matches + 1
    /\ UNCHANGED <<session, sheets, liberal_size, fascist_size, liberal_players,
                   fascist_players, winning_team, k_factor, match_data, elo_saved,
                   match_saved, adds>>

\* {**liberal_updates, **fascist_updates}
Merged(lib, fas) ==
    [player \in DOMAIN lib \cup DOMAIN fas |->
        IF player \in DOMAIN fas THEN fas[player] ELSE lib[player]]

\* mutant: the Fascists' updates are left out
ApplyUpdatesLiberalOnly(elos, lib, fas) ==
    [player \in DOMAIN elos \cup DOMAIN lib |->
        IF player \in DOMAIN lib THEN lib[player].new_rating ELSE elos[player]]

\* lines 633-634 and 642-643
ApplyUpdates(elos, lib, fas) ==
    [player \in DOMAIN elos \cup DOMAIN Merged(lib, fas) |->
        IF player \in DOMAIN Merged(lib, fas)
        THEN Merged(lib, fas)[player].new_rating
        ELSE elos[player]]

\* lines 631-637: "Apply ELO Updates"
ApplyEloUpdates ==
    /\ pc = "calculated"
    /\ player_elos' = ApplyUpdates(player_elos, liberal_updates, fascist_updates)
    /\ report' = "ELO ratings have been updated!"
    /\ pc' = "shown"
    /\ UNCHANGED <<sheets_loaded, sheets, liberal_size, fascist_size, liberal_players,
                   fascist_players, winning_team, k_factor, liberal_updates,
                   fascist_updates, match_data, elo_saved, match_saved, adds, matches>>

\* {player: update['change'] for player, update in updates.items()}
Changes(updates) == [player \in DOMAIN updates |-> updates[player].change]

\* lines 646-658
MatchData(lib, fas, winner, game_end_condition, lib_updates, fas_updates) ==
    [date                |-> Now,
     liberal_team        |-> lib,
     fascist_team        |-> fas,
     hitler              |-> fas[1],
     winning_team        |-> winner,
     game_end_condition  |-> game_end_condition,
     shooter             |-> "",
     shot_player         |-> "",
     liberal_elo_changes |-> Changes(lib_updates),
     fascist_elo_changes |-> Changes(fas_updates),
     notes               |-> ""]

\* lines 640-658: "Apply Updates & Save Match", up to the two saves
ApplyAndBuildMatch(game_end_condition) ==
    /\ pc = "calculated"
    /\ player_elos' = ApplyUpdates(player_elos, liberal_updates, fascist_updates)
    /\ match_data' = MatchData(liberal_players, fascist_players, winning_team,
                               game_end_condition, liberal_updates, fascist_updates)
    /\ pc' = "save_elos"
    /\ UNCHANGED <<sheets_loaded, sheets, liberal_size, fascist_size, liberal_players,
                   fascist_players, winning_team, k_factor, liberal_updates,
                   fascist_updates, elo_saved, match_saved, report, adds, matches>>

\* mutant: the match is saved only if the ratings were
AfterEloSaveOnlyIfSaved(ok) == IF ok THEN "save_match" ELSE "report"

\* where the run goes after line 663, whatever save_player_elos returned
AfterEloSave(ok) == "save_match"

\* line 663
SaveElos(fail) ==
    /\ pc = "save_elos"
    /\ LET saved == save_player_elos(players_sheet, player_elos, fail)
       IN  /\ players_sheet' = saved.sheet
           /\ elo_saved' = saved.ok
           /\ pc' = AfterEloSave(saved.ok)
    /\ UNCHANGED <<session, history_sheet, liberal_size, fascist_size, liberal_players,
                   fascist_players, winning_team, k_factor, liberal_updates,
                   fascist_updates, match_data, match_saved, report, adds, matches>>

\* line 665
SaveMatch(fail) ==
    /\ pc = "save_match"
    /\ LET saved == save_match_history(history_sheet, match_data, fail)
       IN  /\ history_sheet' = saved.sheet
           /\ match_saved' = saved.ok
    /\ pc' = "report"
    /\ UNCHANGED <<session, players_sheet, liberal_size, fascist_size, liberal_players,
                   fascist_players, winning_team, k_factor, liberal_updates,
                   fascist_updates, match_data, elo_saved, report, adds, matches>>

\* mutant: the two partial outcomes swapped
CommitMessageSwapped(elo_ok, match_ok) ==
    IF elo_ok /\ match_ok THEN "ELO ratings updated and match saved!"
    ELSE IF match_ok THEN "ELO ratings updated, but failed to save match history."
    ELSE IF elo_ok THEN "Match saved, but failed to update ELO ratings."
    ELSE "Failed to save both ELO ratings and match history."

\* lines 667-674
CommitMessage(elo_ok, match_ok) ==
    IF elo_ok /\ match_ok THEN "ELO ratings updated and match saved!"
    ELSE IF elo_ok THEN "ELO ratings updated, but failed to save match history."
    ELSE IF match_ok THEN "Match saved, but failed to update ELO ratings."
    ELSE "Failed to save both ELO ratings and match history."

Report ==
    /\ pc = "report"
    /\ report' = CommitMessage(elo_saved, match_saved)
    /\ pc' = "shown"
    /\ UNCHANGED <<session, sheets, liberal_size, fascist_size, liberal_players,
                   fascist_players, winning_team, k_factor, liberal_updates,
                   fascist_updates, match_data, elo_saved, match_saved, adds, matches>>

ResetLocals ==
    /\ liberal_size' = 0
    /\ fascist_size' = 0
    /\ liberal_players' = << >>
    /\ fascist_players' = << >>
    /\ winning_team' = ""
    /\ k_factor' = 0
    /\ liberal_updates' = << >>
    /\ fascist_updates' = << >>
    /\ match_data' = << >>
    /\ elo_saved' = FALSE
    /\ match_saved' = FALSE
    /\ report' = ""

\* the end of the run (st.rerun() of lines 637 and 676, or the script's end):
\* the next run starts with none of this run's locals and renders the panel
Rerun ==
    /\ pc \in {"shown", "calculated"}
    /\ pc' = "idle"
    /\ ResetLocals
    /\ player_elos' = Panel(player_elos)
    /\ UNCHANGED <<sheets_loaded, sheets, adds, matches>>

\* the process is stopped in the middle of lines 661-665; the session is gone,
\* the worksheets stay as they are
Interrupt ==
    /\ pc \in {"save_elos", "save_match"}
    /\ pc' = "stopped"
    /\ UNCHANGED <<session, sheets, locals, adds, matches>>

Next ==
    \/ \E fail \in LoadOutcomes : AutoLoad(fail)
    \/ \E fail \in LoadOutcomes : LoadFromSheets(fail)
    \/ \E fail \in SaveOutcomes : SaveToSheets(fail)
    \/ \E new_player \in NewPlayers, initial_elo \in InitialElos :
           AddPlayer(new_player, initial_elo)
    \/ \E lineup \in Lineups, winner \in {"Liberal", "Fascist"}, k \in KFactors :
           SetUpGame(lineup, winner, k)
    \/ RejectRepeat
    \/ RejectIncomplete
    \/ CalculateEloUpdates
    \/ ApplyEloUpdates
    \/ \E game_end_condition \in GameEndOptions : ApplyAndBuildMatch(game_end_condition)
    \/ \E fail \in SaveOutcomes : SaveElos(fail)
    \/ \E fail \in AppendOutcomes : SaveMatch(fail)
    \/ Report
    \/ Rerun
    \/ Interrupt

Spec == Init /\ [][Next]_vars

\* ------------------------------------------------------------------------
\* The rating engine on its own: calculate_team_elo_update called for both
\* teams as lines 585-589 call it, on any snapshot and any two rosters, a
\* player without a rating among them
\* ------------------------------------------------------------------------
EngineMaxTeam == 2

EngineKFactors == {32, 33}

EngineRatings == {FromInt(1000), FromInt(1400), Ratio(3601, 3)}

EnginePlayers == {"A", "B", "C", "D"}

\* "C" and "D" have no rating
EngineSnapshots == [{"A", "B"} -> EngineRatings]

EngineTeams ==
    {t \in UNION {[1..n -> EnginePlayers] : n \in 1..EngineMaxTeam} :
        Cardinality(Range(t)) = Len(t)}

EngineInit ==
    /\ player_elos \in EngineSnapshots
    /\ sheets_loaded = TRUE
    /\ players_sheet = << >>
    /\ history_sheet = << >>
    /\ pc = "engine"
    /\ liberal_players \in EngineTeams
    /\ fascist_players \in EngineTeams
    /\ Range(liberal_players) \cap Range(fascist_players) = {}
    /\ liberal_size = Len(liberal_players)
    /\ fascist_size = Len(fascist_players)
    /\ winning_team \in {"Liberal", "Fascist"}
    /\ k_factor \in EngineKFactors
    /\ liberal_updates = << >>
    /\ fascist_updates = << >>
    /\ match_data = << >>
    /\ elo_saved = FALSE
    /\ match_saved = FALSE
    /\ report = ""
    /\ adds = 0
    /\ matches = 0

\* lines 585-589
EngineCalculate ==
    /\ pc = "engine"
    /\ liberal_updates' = calculate_team_elo_update(player_elos, liberal_players,
                             fascist_players, winning_team = "Liberal", k_factor)
    /\ fascist_updates' = calculate_team_elo_update(player_elos, fascist_players,
                             liberal_players, winning_team = "Fascist", k_factor)
    /\ pc' = "engine_done"
    /\ UNCHANGED <<session, sheets, liberal_size, fascist_size, liberal_players,
                   fascist_players, winning_team, k_factor, match_data, elo_saved,
                   match_saved, report, adds, matches>>

EngineNext == EngineCalculate

SpecEngine == EngineInit /\ [][EngineNext]_vars

\* ------------------------------------------------------------------------
\* The rating engine on ratings far apart: one player a side, the ratings
\* any that "Initial ELO" (min_value=0, no maximum) lets a player have
\* ------------------------------------------------------------------------
GapRatings ==
    {FromInt(0), FromInt(1200), FromInt(7581), FromInt(7582),
     FromInt(123301), FromInt(123302)}

\* the two ends of the slider of line 581
GapKFactors == {16, 64}

GapInit ==
    /\ player_elos \in [{"A", "B"} -> GapRatings]
    /\ sheets_loaded = TRUE
    /\ players_sheet = << >>
    /\ history_sheet = << >>
    /\ pc = "engine"
    /\ liberal_players = <<"A">>
    /\ fascist_players = <<"B">>
    /\ liberal_size = 1
    /\ fascist_size = 1
    /\ winning_team \in {"Liberal", "Fascist"}
    /\ k_factor \in GapKFactors
    /\ liberal_updates = << >>
    /\ fascist_updates = << >>
    /\ match_data = << >>
    /\ elo_saved = FALSE
    /\ match_saved = FALSE
    /\ report = ""
    /\ adds = 0
    /\ matches = 0

SpecGap == GapInit /\ [][EngineNext]_vars

\* ------------------------------------------------------------------------
\* The claims about the rating engine, checked under SpecEngine
\* ------------------------------------------------------------------------
LiberalChange == liberal_updates[liberal_players[1]].change

FascistChange == fascist_updates[fascist_players[1]].change

\* 2^-50
Tolerance == Fl(FALSE, <<1>>, 0 - 50)

\* C1 as the spec states it: the two teams' deltas of one match sum to exactly 0.
C1_ZeroSumExact ==
    pc = "engine_done" => FAdd(LiberalChange, FascistChange) = Zero

\* C1, amended: the two teams' deltas of one match sum to 0 up to the rounding
\* of the float arithmetic: |delta_A + delta_B| <= kFactor * 2^-50.
C1_ZeroSumRounded ==
    pc = "engine_done" =>
        FLeq(FAbs(FAdd(LiberalChange, FascistChange)), FMul(FromInt(k_factor), Tolerance))

\* a match of teams of different sizes whose deltas do not sum to 0
C1_Witness ==
    /\ pc = "engine_done"
    /\ Len(liberal_players) # Len(fascist_players)
    /\ FAdd(LiberalChange, FascistChange) # Zero

TeamUpdated(updates, team_players) ==
    /\ DOMAIN updates = Range(team_players)
    /\ \A p \in Range(team_players) :
          /\ updates[p].change = updates[team_players[1]].change
          /\ updates[p].old_rating = Get(player_elos, p)
          /\ updates[p].new_rating = FAdd(updates[p].old_rating, updates[p].change)

\* C2: every player of a team gets the same delta whatever the player's own
\* rating, and each update has new_rating = old_rating + delta, old_rating the
\* player's rating in the snapshot the call read.
C2_SameDelta ==
    pc = "engine_done" =>
        /\ TeamUpdated(liberal_updates, liberal_players)
        /\ TeamUpdated(fascist_updates, fascist_players)

\* a team of two players whose ratings differ has been updated
C2_Witness ==
    /\ pc = "engine_done"
    /\ Len(liberal_players) = 2
    /\ Get(player_elos, liberal_players[1]) # Get(player_elos, liberal_players[2])
    /\ LiberalChange # Zero

\* the snapshot with every player of the two rosters who has no rating given 1200
Filled ==
    [p \in DOMAIN player_elos \cup Range(liberal_players) \cup Range(fascist_players) |->
        IF p \in DOMAIN player_elos THEN player_elos[p] ELSE FromInt(1200)]

Unrated(team_players) == Range(team_players) \ DOMAIN player_elos

\* C7: a player of either roster who has no rating in the snapshot counts as
\* rated 1200 in the team's average, in the opponent's average and as the
\* player's old_rating, and is updated like any other player.
C7_UnknownIsBaseline ==
    pc = "engine_done" =>
        /\ liberal_updates = calculate_team_elo_update(Filled, liberal_players,
                                 fascist_players, winning_team = "Liberal", k_factor)
        /\ fascist_updates = calculate_team_elo_update(Filled, fascist_players,
                                 liberal_players, winning_team = "Fascist", k_factor)
        /\ \A p \in Unrated(liberal_players) :
              p \in DOMAIN liberal_updates /\ liberal_updates[p].old_rating = FromInt(1200)
        /\ \A p \in Unrated(fascist_players) :
              p \in DOMAIN fascist_updates /\ fascist_updates[p].old_rating = FromInt(1200)

\* a match with an unrated player on each team, next to rated players not at 1200
C7_Witness ==
    /\ pc = "engine_done"
    /\ Unrated(liberal_players) # {}
    /\ Unrated(fascist_players) # {}
    /\ \E p \in Range(liberal_players) \cap DOMAIN player_elos :
          player_elos[p] # FromInt(1200)
    /\ \E p \in Range(fascist_players) \cap DOMAIN player_elos :
          player_elos[p] # FromInt(1200)

LiberalAverage == Average(Ratings(player_elos, liberal_players))

FascistAverage == Average(Ratings(player_elos, fascist_players))

\* k_factor / 2
HalfK == FDiv(FromInt(k_factor), FromInt(2))

\* C10: when the two teams' averages are equal, the winners' delta is exactly
\* +kFactor/2 and the losers' exactly -kFactor/2.
C10_EqualAverages ==
    pc = "engine_done" /\ LiberalAverage = FascistAverage =>
        /\ LiberalChange = IF winning_team = "Liberal" THEN HalfK ELSE FNeg(HalfK)
        /\ FascistChange = IF winning_team = "Fascist" THEN HalfK ELSE FNeg(HalfK)

\* 1200 against 1200 with k = 32, the Liberals winning: +16 and -16; the
\* Liberal team's two ratings differ
C10_Witness ==
    /\ pc = "engine_done"
    /\ LiberalAverage = FromInt(1200)
    /\ FascistAverage = FromInt(1200)
    /\ Len(liberal_players) = 2
    /\ Get(player_elos, liberal_players[1]) # Get(player_elos, liberal_players[2])
    /\ k_factor = 32
    /\ winning_team = "Liberal"
    /\ LiberalChange = FromInt(16)
    /\ FascistChange = FromInt(0 - 16)

\* ------------------------------------------------------------------------
\* The claims about the application, checked under Spec
\* ------------------------------------------------------------------------
\* the two rosters share a player, or a player is named twice
Conflict(lib, fas) ==
    \/ Range(lib) \cap Range(fas) # {}
    \/ \E i, j \in 1..Len(lib \o fas) : i # j /\ (lib \o fas)[i] = (lib \o fas)[j]

\* C3: a match whose rosters share a player or repeat one is rejected: no
\* update is computed or applied, and the snapshot, the Rating Store and the
\* Match Ledger stay as they are.
C3_ConflictRejected ==
    [][pc = "validation" /\ Conflict(liberal_players, fascist_players) =>
          /\ pc' = "shown"
          /\ report' = "Each player can only be on one team!"
          /\ UNCHANGED <<player_elos, players_sheet, history_sheet,
                         liberal_updates, fascist_updates>>]_vars

\* the rosters {A, B, C} and {C, D}, complete but sharing C, have been rejected
C3_Witness ==
    /\ pc = "shown"
    /\ report = "Each player can only be on one team!"
    /\ Range(liberal_players) \cap Range(fascist_players) # {}
    /\ ~Incomplete(liberal_players, liberal_size, fascist_players, fascist_size)
    /\ liberal_updates = << >>

\* the rows that hold exactly the mapping elos
RowsOf(elos) ==
    [i \in 1..Len(Keys(elos)) |->
        [Player |-> Keys(elos)[i], ELO |-> <<elos[Keys(elos)[i]]>>, Last_Updated |-> Now]]

SaysRatingsUpdated(message) ==
    message \in {"ELO ratings updated and match saved!",
                 "ELO ratings updated, but failed to save match history."}

SaysMatchLogged(message) ==
    message \in {"ELO ratings updated and match saved!",
                 "Match saved, but failed to update ELO ratings."}

\* C4: the commit reports each of its two writes as it went: "ratings updated"
\* exactly when the Rating Store now holds the snapshot, "match logged" exactly
\* when the record was appended to the ledger, in all four combinations.
C4_ReportTruthful ==
    [][/\ pc = "save_elos" /\ pc' = "save_match" =>
              (elo_saved' <=> players_sheet' = RowsOf(player_elos))
       /\ pc = "save_match" /\ pc' = "report" =>
              /\ match_saved' <=> history_sheet' = Append(history_sheet, MatchRow(match_data))
              /\ ~match_saved' => history_sheet' = history_sheet
       /\ pc = "report" /\ pc' = "shown" =>
              /\ SaysRatingsUpdated(report') <=> elo_saved
              /\ SaysMatchLogged(report') <=> match_saved]_vars

\* the append failed after the ratings were written, and the report says so
C4_Witness ==
    /\ pc = "shown"
    /\ elo_saved /\ ~match_saved
    /\ players_sheet = RowsOf(player_elos)
    /\ report = "ELO ratings updated, but failed to save match history."

\* C5: the commit is two steps and no transaction: the ratings are written
\* first, the record is appended next whether or not the ratings were written,
\* and neither step touches what the other wrote.
C5_TwoSteps ==
    [][/\ pc = "save_elos" /\ pc' # pc =>
              /\ pc' \in {"save_match", "stopped"}
              /\ history_sheet' = history_sheet
              /\ match_saved' = match_saved
       /\ pc = "save_match" /\ pc' # pc =>
              /\ pc' \in {"report", "stopped"}
              /\ players_sheet' = players_sheet
              /\ elo_saved' = elo_saved
       /\ pc \in {"report", "stopped"} => UNCHANGED sheets]_vars

\* the record of the match is in the ledger
Logged == history_sheet # << >> /\ history_sheet[Len(history_sheet)] = MatchRow(match_data)

\* the match is logged and the ratings are not updated
C5_Witness ==
    /\ pc = "report"
    /\ ~elo_saved /\ match_saved
    /\ players_sheet # RowsOf(player_elos)
    /\ Logged

\* the ratings are updated and the match is not logged
C5_RatingsOnly ==
    /\ pc = "report"
    /\ elo_saved /\ ~match_saved
    /\ players_sheet = RowsOf(player_elos)
    /\ ~Logged

\* the process stopped between the two writes
C5_Stopped ==
    /\ pc = "stopped"
    /\ elo_saved
    /\ players_sheet = RowsOf(player_elos)
    /\ ~Logged

\* C6 as the spec states it: load_player_elos right after a successful
\* save_player_elos(m) returns exactly m, a player rated 0 included.
C6_RoundTrip ==
    [][pc = "idle" /\ report' = "Player data saved to Google Sheets!" =>
          load_player_elos(players_sheet', "none") = player_elos]_vars

IsPrefix(s, t) == Len(s) <= Len(t) /\ SubSeq(t, 1, Len(s)) = s

\* what getAll returns
Ledger(rows) == load_match_history(rows, "none")

\* C8: the ledger is append-only: what was read before a step is a prefix,
\* in the same order, of what is read after it; an append that succeeds adds
\* exactly the one record at the end, and one that fails adds nothing.
C8_AppendOnly ==
    [][/\ IsPrefix(Ledger(history_sheet), Ledger(history_sheet'))
       /\ Len(Ledger(history_sheet')) <= Len(Ledger(history_sheet)) + 1
       /\ pc = "save_match" /\ match_saved' =>
              Ledger(history_sheet') = Append(Ledger(history_sheet), MatchRow(match_data))
       /\ pc = "save_match" /\ ~match_saved' =>
              Ledger(history_sheet') = Ledger(history_sheet)]_vars

\* a record has been appended to a ledger that held one already
C8_Witness ==
    /\ pc = "report"
    /\ match_saved
    /\ Len(Ledger(history_sheet)) >= 2
    /\ Ledger(history_sheet)[1] = MatchRow(OldMatch)

\* the ELO cell of player's row
Stored(rows, player) ==
    {rows[i].ELO : i \in {j \in 1..Len(rows) : rows[j].Player = player}}

TeamCommitted(updates, team_players, logged_changes) ==
    \A p \in Range(team_players) :
        /\ Stored(players_sheet, p) =
               {<<FAdd(updates[p].old_rating, updates[team_players[1]].change)>>}
        /\ logged_changes[p] = updates[team_players[1]].change

\* C9: after a commit whose rating write succeeded, the Rating Store holds for
\* every player of either roster the player's rating before the match plus the
\* team's delta, and the record's delta maps hold the deltas that were applied.
C9_StoreHoldsUpdates ==
    /\ pc = "calculated" =>
           \A p \in DOMAIN liberal_updates \cup DOMAIN fascist_updates :
               Merged(liberal_updates, fascist_updates)[p].old_rating = player_elos[p]
    /\ pc \in {"save_match", "report"} /\ elo_saved =>
           /\ TeamCommitted(liberal_updates, liberal_players, match_data.liberal_elo_changes)
           /\ TeamCommitted(fascist_updates, fascist_players, match_data.fascist_elo_changes)
           /\ match_saved =>
                  /\ history_sheet[Len(history_sheet)].Liberal_ELO_Changes
                         = Str(match_data.liberal_elo_changes)
                  /\ history_sheet[Len(history_sheet)].Fascist_ELO_Changes
                         = Str(match_data.fascist_elo_changes)

\* a commit both of whose writes succeeded, the teams' averages unequal
C9_Witness ==
    /\ pc = "report"
    /\ elo_saved /\ match_saved
    /\ liberal_updates[liberal_players[1]].change # FromInt(16)
    /\ liberal_updates[liberal_players[1]].change # FromInt(0 - 16)

\* ------------------------------------------------------------------------
\* The claim about ratings far apart, checked under SpecGap
\* ------------------------------------------------------------------------
Positive(x) == FLess(Zero, x)

Negative(x) == FLess(x, Zero)

\* the delta of a team that won is positive and of one that lost negative
StrictDelta(updates, team_players, won) ==
    /\ updates # OverflowError
    /\ IF won THEN Positive(updates[team_players[1]].change)
              ELSE Negative(updates[team_players[1]].change)

\* C11 as the spec states it: for unequal averages, however far apart, the
\* winners' delta is strictly positive and the losers' strictly negative.
C11_StrictlyBetween ==
    pc = "engine_done" /\ LiberalAverage # FascistAverage =>
        /\ StrictDelta(liberal_updates, liberal_players, winning_team = "Liberal")
        /\ StrictDelta(fascist_updates, fascist_players, winning_team = "Fascist")

\* ------------------------------------------------------------------------
\* The claims about the snapshot and the store, checked under Spec
\* ------------------------------------------------------------------------
\* C12: computing the updates ("Calculate ELO Updates") changes neither the
\* snapshot nor the Rating Store nor the Match Ledger; while updates are on
\* the page the snapshot changes only by applying them, to their new ratings.
C12_CalculateIsPure ==
    [][/\ pc = "validation" =>
              UNCHANGED <<player_elos, sheets_loaded, players_sheet, history_sheet>>
       /\ pc = "calculated" /\ player_elos' # player_elos =>
              /\ pc' \in {"shown", "save_elos"}
              /\ \A p \in DOMAIN player_elos' :
                    player_elos'[p] = IF p \in DOMAIN fascist_updates
                                      THEN fascist_updates[p].new_rating
                                      ELSE IF p \in DOMAIN liberal_updates
                                      THEN liberal_updates[p].new_rating
                                      ELSE player_elos[p]]_vars

\* updates that change ratings are computed and the snapshot still holds the
\* old ratings
C12_Witness ==
    /\ pc = "calculated"
    /\ liberal_updates # << >>
    /\ \A p \in DOMAIN liberal_updates :
          /\ liberal_updates[p].new_rating # liberal_updates[p].old_rating
          /\ player_elos[p] = liberal_updates[p].old_rating

\* C13 as stated: when a commit's rating write succeeds, every player who had
\* a rating in the Rating Store and is on neither roster has the same rating
\* in the store afterwards.
C13_OthersKeepRating ==
    [][pc = "save_elos" /\ elo_saved' =>
          \A p \in {players_sheet[i].Player : i \in 1..Len(players_sheet)}
                       \ (Range(liberal_players) \cup Range(fascist_players)) :
              Stored(players_sheet', p) = Stored(players_sheet, p)]_vars

\* C14 as stated: a rating write that reports failure, from either save
\* button or in a commit, leaves the Rating Store as it was.
C14_FailedWriteKeepsStore ==
    [][\/ pc = "idle" /\ report' = "Failed to save data."
       \/ pc = "save_elos" /\ pc' = "save_match" /\ ~elo_saved'
       => players_sheet' = players_sheet]_vars

\* C15 as stated: a run that renders the panel with no rating edited leaves
\* every rating of the snapshot as it was, a rating that a match update left
\* with a fraction included.
C15_RenderKeepsRatings ==
    [][(pc = "shown" \/ pc = "calculated") /\ pc' = "idle" =>
          player_elos' = player_elos]_vars

====
